---- MODULE Spec2Model ----
(***************************************************************************)
(* A model of excel_to_graph: the naming utilities (utils.py), the project *)
(* scaffolding (utils.py), the Excel to CSV converter (converter.py) and   *)
(* the command handlers that call them (cli.py).                           *)
(*                                                                         *)
(* A string is a sequence of characters, a character a one-letter string.  *)
(* A path is a sequence of segments, a segment a string in this sense.     *)
(***************************************************************************)
EXTENDS Naturals, Sequences, FiniteSets, TLC

VARIABLES
    text,       \* the argument of the last call of a naming utility
    fn,         \* the naming utility called last ("none" before any call)
    ret,        \* what it returned
    dirs,       \* the directories of the filesystem (paths from the working directory)
    files,      \* the regular files of the filesystem: path -> content
    pre,        \* the filesystem as it was when the last call started
    call,       \* the last call of a library function or handler and its outcome
    asProject,  \* the directories a component created under a project name
    reader      \* the ExcelReader at hand: the sheets of its file, its workbook_data

nameVars == <<text, fn, ret>>
fsVars == <<dirs, files, pre, call, asProject, reader>>
vars == <<text, fn, ret, dirs, files, pre, call, asProject, reader>>

----------------------------------------------------------------------------
(* Bounds of the model.                                                    *)

\* Longest string the naming utilities are tried on, apart from LongNames.
MaxLen == 4

----------------------------------------------------------------------------
(* Characters, with the classes Python gives them.                         *)

Char == {"c", "o", "n", "C", "1", "-", "_", " ", "!", "\n", "é"}

\* [a-zA-Z0-9]
AsciiAlnum == {"c", "o", "n", "C", "1"}

\* str.isalnum(): letters and digits of any script
IsAlnum(c) == c \in AsciiAlnum \cup {"é"}

\* \w of re on str patterns: isalnum() or "_"
IsWord(c) == IsAlnum(c) \/ c = "_"

\* \s of re on str patterns
IsSpace(c) == c \in {" ", "\n"}

\* str.lower() on one character
UpperToLower == ("C" :> "c") @@ ("X" :> "x") @@ ("L" :> "l") @@ ("S" :> "s")

LowerChar(c) == IF c \in DOMAIN UpperToLower THEN UpperToLower[c] ELSE c

\* str.lower()
Lower(s) == [i \in 1..Len(s) |-> LowerChar(s[i])]

\* str.strip("_")
RECURSIVE LStrip(_)
LStrip(s) == IF s # <<>> /\ Head(s) = "_" THEN LStrip(Tail(s)) ELSE s

RECURSIVE RStrip(_)
RStrip(s) ==
    IF s # <<>> /\ s[Len(s)] = "_" THEN RStrip(SubSeq(s, 1, Len(s) - 1)) ELSE s

Strip(s) == RStrip(LStrip(s))

\* n copies of c
Repeat(c, n) == [i \in 1..n |-> c]

\* all strings of at most n characters
Strings(n) == UNION {[1..k -> Char] : k \in 0..n}

----------------------------------------------------------------------------
(* utils.py: validate_project_name                                         *)

MaxNameLen == 100

Reserved ==
    { <<"c","o","n">>, <<"p","r","n">>, <<"a","u","x">>, <<"n","u","l">>,
      <<"c","o","m","1">>, <<"c","o","m","2">>,
      <<"l","p","t","1">>, <<"l","p","t","2">> }

NameChar(c) == c \in AsciiAlnum \cup {"_", "-"}

AllNameChars(s) == \A i \in 1..Len(s) : NameChar(s[i])

\* re.match(r"^[a-zA-Z0-9_-]+$", name): "$" matches at the end of the string and
\* also just before a newline that ends the string.
ReMatchName(name) ==
    \/ name # <<>> /\ AllNameChars(name)
    \/ /\ Len(name) >= 2
       /\ name[Len(name)] = "\n"
       /\ AllNameChars(SubSeq(name, 1, Len(name) - 1))

MsgEmpty == "Project name cannot be empty"
MsgTooLong == "Project name is too long (max 100 characters)"
MsgChars == "Project name can only contain letters, numbers, hyphens (-), and underscores (_)"
MsgEdge == "Project name cannot start or end with hyphens or underscores"
\* the code puts the quoted name in front of this text
MsgReserved == "is a reserved name and cannot be used"

validate_project_name(name) ==
    IF name = <<>> THEN <<FALSE, MsgEmpty>>
    ELSE IF Len(name) > MaxNameLen THEN <<FALSE, MsgTooLong>>
    ELSE IF ~ReMatchName(name) THEN <<FALSE, MsgChars>>
    ELSE IF name[1] \in {"-", "_"} \/ name[Len(name)] \in {"-", "_"}
         THEN <<FALSE, MsgEdge>>
    ELSE IF Lower(name) \in Reserved THEN <<FALSE, MsgReserved>>
    ELSE <<TRUE, "">>

----------------------------------------------------------------------------
(* utils.py: sanitize_filename                                             *)

\* re.sub(r"[^\w\s-]", "", name)
DropSpecial(s) == SelectSeq(s, LAMBDA c : IsWord(c) \/ IsSpace(c) \/ c = "-")

\* re.sub(r"[\s-]+", "_", name): each maximal run becomes one underscore
IsSep(c) == IsSpace(c) \/ c = "-"

RECURSIVE CollapseRuns(_)
CollapseRuns(s) ==
    IF s = <<>> THEN <<>>
    ELSE IF IsSep(Head(s))
         THEN IF Len(s) >= 2 /\ IsSep(s[2])
              THEN CollapseRuns(Tail(s))
              ELSE <<"_">> \o CollapseRuns(Tail(s))
         ELSE <<Head(s)>> \o CollapseRuns(Tail(s))

\* a variant that trims before it collapses
sanitize_filename_strip_first(name) == CollapseRuns(DropSpecial(Strip(Lower(name))))

\* a variant whose second substitution lacks the "+"
EachSep(s) == [i \in 1..Len(s) |-> IF IsSep(s[i]) THEN "_" ELSE s[i]]

sanitize_filename_no_plus(name) == Strip(EachSep(DropSpecial(Lower(name))))

sanitize_filename(name) == Strip(CollapseRuns(DropSpecial(Lower(name))))

----------------------------------------------------------------------------
(* converter.py: sanitize_sheet_name                                       *)

\* the loop over the characters: alphanumerics, "-" and "_" are kept, a space
\* becomes "_", anything else is skipped
RECURSIVE SafeChars(_)
SafeChars(s) ==
    IF s = <<>> THEN <<>>
    ELSE (IF IsAlnum(Head(s)) \/ Head(s) \in {"-", "_"} THEN <<Head(s)>>
          ELSE IF Head(s) = " " THEN <<"_">>
          ELSE <<>>) \o SafeChars(Tail(s))

\* "__" in result
HasDouble(s) == \E i \in 1..(Len(s) - 1) : s[i] = "_" /\ s[i + 1] = "_"

\* result.replace("__", "_"): the occurrences from the left, without overlap
RECURSIVE ReplaceDouble(_)
ReplaceDouble(s) ==
    IF Len(s) < 2 THEN s
    ELSE IF s[1] = "_" /\ s[2] = "_" THEN <<"_">> \o ReplaceDouble(SubSeq(s, 3, Len(s)))
    ELSE <<Head(s)>> \o ReplaceDouble(Tail(s))

\* while "__" in result: result = result.replace("__", "_")
RECURSIVE SqueezeUnderscores(_)
SqueezeUnderscores(s) ==
    IF HasDouble(s) THEN SqueezeUnderscores(ReplaceDouble(s)) ELSE s

SheetToken == <<"s","h","e","e","t">>

\* a variant without the fallback for an empty result
sanitize_sheet_name_no_fallback(name) ==
    Strip(SqueezeUnderscores(SafeChars(name)))

sanitize_sheet_name(name) ==
    LET result == Strip(SqueezeUnderscores(SafeChars(name)))
    IN  IF result = <<>> THEN SheetToken ELSE result

----------------------------------------------------------------------------
(* The filesystem: the directories and the regular files below the working *)
(* directory, as pathlib sees them.  The working directory is <<>>.        *)

resources == <<"r","e","s","o","u","r","c","e","s">>
outputs == <<"o","u","t","p","u","t","s">>
scripts == <<"s","c","r","i","p","t","s">>
ReadmeMd == <<"R","E","A","D","M","E",".","m","d">>

NoFiles == [p \in {} |-> <<>>]

EmptyFs == [dirs |-> {}, files |-> NoFiles]

Prefixes(p) == {SubSeq(p, 1, k) : k \in 1..Len(p)}

Parent(p) == SubSeq(p, 1, Len(p) - 1)

\* Path.is_file(), Path.is_dir(), Path.exists()
IsFile(fs, p) == p \in DOMAIN fs.files

IsDir(fs, p) == p = <<>> \/ p \in fs.dirs

Exists(fs, p) == IsDir(fs, p) \/ IsFile(fs, p)

\* Path.mkdir(parents=True, exist_ok=True): the missing ancestors are made
\* too; a regular file on the way raises.
MkdirParents(fs, p) ==
    IF \E q \in Prefixes(p) : IsFile(fs, q)
    THEN [ok |-> FALSE, fs |-> fs]
    ELSE [ok |-> TRUE, fs |-> [fs EXCEPT !.dirs = @ \cup Prefixes(p)]]

\* Path.mkdir(exist_ok=True): the parent must be a directory
Mkdir(fs, p) ==
    IF IsDir(fs, p) THEN [ok |-> TRUE, fs |-> fs]
    ELSE IF IsFile(fs, p) \/ ~IsDir(fs, Parent(p)) THEN [ok |-> FALSE, fs |-> fs]
    ELSE [ok |-> TRUE, fs |-> [fs EXCEPT !.dirs = @ \cup {p}]]

\* the files of f with p holding content
Put(f, p, content) ==
    [q \in DOMAIN f \cup {p} |-> IF q = p THEN content ELSE f[q]]

\* Path.write_text and the writers of the libraries: the file is created or
\* overwritten; its parent must be a directory and p itself must not be one
WriteFile(fs, p, content) ==
    IF p = <<>> \/ IsDir(fs, p) \/ ~IsDir(fs, Parent(p))
    THEN [ok |-> FALSE, fs |-> fs]
    ELSE [ok |-> TRUE, fs |-> [fs EXCEPT !.files = Put(@, p, content)]]

\* a filesystem with the regular file p, and the directories above it, added
WithFile(fs, p, content) ==
    [dirs |-> fs.dirs \cup Prefixes(Parent(p)), files |-> Put(fs.files, p, content)]

----------------------------------------------------------------------------
(* utils.py: create_project_structure                                      *)

\* project_paths, in the order of the dictionary
project_paths(name, base) ==
    << base \o <<resources, name>>, base \o <<outputs, name>>, base \o <<scripts, name>> >>

MsgExists == "already exists"

\* for path in project_paths.values(): path.mkdir(parents=True, exist_ok=True)
RECURSIVE MkdirEach(_, _)
MkdirEach(fs, paths) ==
    IF paths = <<>> THEN [ok |-> TRUE, fs |-> fs]
    ELSE LET m == MkdirParents(fs, Head(paths))
         IN  IF m.ok THEN MkdirEach(m.fs, Tail(paths)) ELSE m

Readme(name) == [kind |-> "readme", project |-> name]

\* a variant without the check that the project exists
create_project_structure_no_check(fs, name, base) ==
    LET valid == validate_project_name(name)
        paths == project_paths(name, base)
        made  == MkdirEach(fs, paths)
        wrote == WriteFile(made.fs, paths[1] \o <<ReadmeMd>>, Readme(name))
    IN  IF ~valid[1]
        THEN [fs |-> fs, raised |-> "ValueError", msg |-> valid[2], ret |-> <<>>]
        ELSE IF ~made.ok
        THEN [fs |-> made.fs, raised |-> "OSError", msg |-> "", ret |-> <<>>]
        ELSE IF ~wrote.ok
        THEN [fs |-> wrote.fs, raised |-> "OSError", msg |-> "", ret |-> <<>>]
        ELSE [fs |-> wrote.fs, raised |-> "", msg |-> "", ret |-> paths]

\* a variant that undoes what it made when a later step fails
create_project_structure_rollback(fs, name, base) ==
    LET valid == validate_project_name(name)
        paths == project_paths(name, base)
        made  == MkdirEach(fs, paths)
        wrote == WriteFile(made.fs, paths[1] \o <<ReadmeMd>>, Readme(name))
    IN  IF ~valid[1]
        THEN [fs |-> fs, raised |-> "ValueError", msg |-> valid[2], ret |-> <<>>]
        ELSE IF \E i \in 1..3 : Exists(fs, paths[i])
        THEN [fs |-> fs, raised |-> "ValueError", msg |-> MsgExists, ret |-> <<>>]
        ELSE IF ~made.ok
        THEN [fs |-> fs, raised |-> "OSError", msg |-> "", ret |-> <<>>]
        ELSE IF ~wrote.ok
        THEN [fs |-> fs, raised |-> "OSError", msg |-> "", ret |-> <<>>]
        ELSE [fs |-> wrote.fs, raised |-> "", msg |-> "", ret |-> paths]

\* a variant that leaves the scripts directory out
create_project_structure_two_dirs(fs, name, base) ==
    LET valid == validate_project_name(name)
        paths == project_paths(name, base)
        made  == MkdirEach(fs, SubSeq(paths, 1, 2))
        wrote == WriteFile(made.fs, paths[1] \o <<ReadmeMd>>, Readme(name))
    IN  IF ~valid[1]
        THEN [fs |-> fs, raised |-> "ValueError", msg |-> valid[2], ret |-> <<>>]
        ELSE IF \E i \in 1..3 : Exists(fs, paths[i])
        THEN [fs |-> fs, raised |-> "ValueError", msg |-> MsgExists, ret |-> <<>>]
        ELSE IF ~made.ok
        THEN [fs |-> made.fs, raised |-> "OSError", msg |-> "", ret |-> <<>>]
        ELSE IF ~wrote.ok
        THEN [fs |-> wrote.fs, raised |-> "OSError", msg |-> "", ret |-> <<>>]
        ELSE [fs |-> wrote.fs, raised |-> "", msg |-> "", ret |-> paths]

\* The outcome of create_project_structure(name, base) on fs: the filesystem
\* it leaves, the exception it raised ("" when it returned) with its message,
\* and the paths it returned.
create_project_structure(fs, name, base) ==
    LET valid == validate_project_name(name)
        paths == project_paths(name, base)
        made  == MkdirEach(fs, paths)
        wrote == WriteFile(made.fs, paths[1] \o <<ReadmeMd>>, Readme(name))
    IN  IF ~valid[1]
        THEN [fs |-> fs, raised |-> "ValueError", msg |-> valid[2], ret |-> <<>>]
        ELSE IF \E i \in 1..3 : Exists(fs, paths[i])
        THEN [fs |-> fs, raised |-> "ValueError", msg |-> MsgExists, ret |-> <<>>]
        ELSE IF ~made.ok
        THEN [fs |-> made.fs, raised |-> "OSError", msg |-> "", ret |-> <<>>]
        ELSE IF ~wrote.ok
        THEN [fs |-> wrote.fs, raised |-> "OSError", msg |-> "", ret |-> <<>>]
        ELSE [fs |-> wrote.fs, raised |-> "", msg |-> "", ret |-> paths]

----------------------------------------------------------------------------
(* pathlib: the suffix and the stem of a file name                         *)

\* name.rfind("."), 0 when there is no dot
LastDot(name) ==
    IF \E i \in 1..Len(name) : name[i] = "."
    THEN CHOOSE i \in 1..Len(name) :
            name[i] = "." /\ \A j \in (i + 1)..Len(name) : name[j] # "."
    ELSE 0

\* PurePath.suffix: from the last dot, unless the name starts or ends with it
Suffix(name) ==
    LET i == LastDot(name)
    IN  IF 1 < i /\ i < Len(name) THEN SubSeq(name, i, Len(name)) ELSE <<>>

\* PurePath.stem
Stem(name) ==
    LET i == LastDot(name)
    IN  IF 1 < i /\ i < Len(name) THEN SubSeq(name, 1, i - 1) ELSE name

\* the last segment of a path
Name(p) == IF p = <<>> THEN <<>> ELSE p[Len(p)]

----------------------------------------------------------------------------
(* utils.py: detect_project_from_path, get_output_dir_for_project,         *)
(* setup_output_dir                                                        *)

\* None, and the empty string: what Python takes for false
None == <<>>

\* parts.index("resources"), 0 when no segment is "resources"
ResourcesIdx(parts) ==
    IF \E i \in 1..Len(parts) : parts[i] = resources
    THEN CHOOSE i \in 1..Len(parts) :
            parts[i] = resources /\ \A j \in 1..(i - 1) : parts[j] # resources
    ELSE 0

\* the segment after the first "resources", when Path("resources") / segment
\* is a directory seen from the working directory
detect_project_from_path(fs, file_path) ==
    LET idx == ResourcesIdx(file_path)
    IN  IF idx > 0 /\ Len(file_path) > idx /\ IsDir(fs, <<resources, file_path[idx + 1]>>)
        THEN file_path[idx + 1]
        ELSE None

\* a variant that appends the name whether or not there is one
get_output_dir_for_project_always(project_name, base_dir) ==
    base_dir \o <<project_name>>

get_output_dir_for_project(project_name, base_dir) ==
    IF project_name # None THEN base_dir \o <<project_name>> ELSE base_dir

png == <<"p","n","g">>
pdf == <<"p","d","f">>
html == <<"h","t","m","l">>

\* Path.mkdir(exist_ok=True) on each path in turn, up to the first that raises
RECURSIVE MkdirSeq(_, _)
MkdirSeq(fs, paths) ==
    IF paths = <<>> THEN [ok |-> TRUE, fs |-> fs]
    ELSE LET m == Mkdir(fs, Head(paths))
         IN  IF m.ok THEN MkdirSeq(m.fs, Tail(paths)) ELSE m

setup_output_dir(fs, base_dir) ==
    LET m == MkdirParents(fs, base_dir)
    IN  IF ~m.ok THEN m
        ELSE MkdirSeq(m.fs, <<base_dir \o <<png>>, base_dir \o <<pdf>>, base_dir \o <<html>>>>)

----------------------------------------------------------------------------
(* pandas: a table (DataFrame) is [columns, rows], a cell a number or a     *)
(* text with its printed form; a CSV file holds the printed forms.         *)

Num(v) == [t |-> "num", v |-> v]
Str(v) == [t |-> "str", v |-> v]

\* the texts pd.read_csv reads as numbers
NumericText == {"1", "2"}

\* DataFrame.to_csv(path, index=False, encoding="utf-8"): the header row and
\* one line a row, every cell in its printed form
to_csv(df) ==
    [kind |-> "csv",
     header |-> df.columns,
     lines |-> [i \in 1..Len(df.rows) |->
                  [j \in 1..Len(df.rows[i]) |-> df.rows[i][j].v]]]

\* pd.read_csv(path): a column is numeric when every one of its cells reads as
\* a number, and text otherwise
read_csv(content) ==
    LET numeric(j) == \A i \in 1..Len(content.lines) : content.lines[i][j] \in NumericText
    IN  [columns |-> content.header,
         rows |-> [i \in 1..Len(content.lines) |->
                     [j \in 1..Len(content.lines[i]) |->
                        IF numeric(j) THEN Num(content.lines[i][j])
                        ELSE Str(content.lines[i][j])]]]

----------------------------------------------------------------------------
(* reader.py: ExcelReader.  A workbook is the sequence of its sheets, a    *)
(* sheet [name, columns, rows]; workbook_data is <<>> until it is loaded.  *)

SheetNames(sheets) == [i \in 1..Len(sheets) |-> sheets[i].name]

HasSheet(sheets, sheet_name) == \E i \in 1..Len(sheets) : sheets[i].name = sheet_name

SheetOf(sheets, sheet_name) ==
    sheets[CHOOSE i \in 1..Len(sheets) : sheets[i].name = sheet_name]

\* pd.read_excel(path, engine="openpyxl") reads a regular file that is a workbook
IsWorkbook(fs, p) == IsFile(fs, p) /\ fs.files[p].kind = "workbook"

\* str.strip().str.lower() on a header
RECURSIVE LStripSpace(_)
LStripSpace(s) == IF s # <<>> /\ IsSpace(Head(s)) THEN LStripSpace(Tail(s)) ELSE s

RECURSIVE RStripSpace(_)
RStripSpace(s) ==
    IF s # <<>> /\ IsSpace(s[Len(s)]) THEN RStripSpace(SubSeq(s, 1, Len(s) - 1)) ELSE s

NormalizeColumns(df) ==
    [df EXCEPT !.columns = [i \in 1..Len(@) |-> Lower(RStripSpace(LStripSpace(@[i])))]]

\* get_data on a reader whose file holds file_sheets and whose workbook_data
\* is workbook_data.  "self.workbook_data.get(sheet_name) or self.load_sheet(..)"
\* asks a DataFrame for its truth value when the sheet is loaded, which raises
\* ValueError; load_sheet raises ValueError when the file has no such sheet.
get_data(file_sheets, workbook_data, sheet_name, normalize_columns) ==
    LET data == IF sheet_name = None /\ workbook_data = <<>>
                THEN file_sheets ELSE workbook_data
        name == IF sheet_name = None THEN SheetNames(data)[1] ELSE sheet_name
    IN  IF HasSheet(data, name) THEN [raised |-> "ValueError", df |-> None]
        ELSE IF ~HasSheet(file_sheets, name) THEN [raised |-> "ValueError", df |-> None]
        ELSE [raised |-> "",
              df |-> IF normalize_columns THEN NormalizeColumns(SheetOf(file_sheets, name))
                     ELSE SheetOf(file_sheets, name)]

----------------------------------------------------------------------------
(* visualizer.py: GraphVisualizer, as far as the files it writes go        *)

speak_time == <<"s","p","e","a","k","_","t","i","m","e">>
speak_person == <<"s","p","e","a","k","_","p","e","r","s","o","n">>

\* reader.py, get_timeline_data: df.rename(columns={cols[0]: "speak_time",
\* cols[1]: "speak_person"}) renames by name, every column of that name; when
\* cols[0] = cols[1] the mapping has the one key, with the later value
RenameRoles(df) ==
    LET cols == df.columns
    IN  [df EXCEPT !.columns =
            [i \in 1..Len(cols) |->
                IF cols[i] = cols[2] THEN speak_person
                ELSE IF cols[i] = cols[1] THEN speak_time
                ELSE cols[i]]]

\* get_timeline_data: the lines of get_data with the normalization always on,
\* then the renaming when there are two columns or more
get_timeline_data(file_sheets, workbook_data, sheet_name) ==
    LET got == get_data(file_sheets, workbook_data, sheet_name, TRUE)
    IN  IF got.raised # "" THEN got
        ELSE IF Len(got.df.columns) >= 2 THEN [got EXCEPT !.df = RenameRoles(@)]
        ELSE got

timeline_chart == <<"t","i","m","e","l","i","n","e","_","c","h","a","r","t">>
bar_chart_speaking_time ==
    <<"b","a","r","_","c","h","a","r","t","_","s","p","e","a","k","i","n","g","_","t","i","m","e">>
distribution_plot ==
    <<"d","i","s","t","r","i","b","u","t","i","o","n","_","p","l","o","t">>
heatmap_person_time ==
    <<"h","e","a","t","m","a","p","_","p","e","r","s","o","n","_","t","i","m","e">>

\* the charts of the handler, in the order it makes them
ChartKinds == <<timeline_chart, bar_chart_speaking_time, distribution_plot, heatmap_person_time>>

Columns(df) == {df.columns[i] : i \in 1..Len(df.columns)}

\* __init__: the output directory is made, then the role columns are asked for
GraphVisualizer(fs, df, output_dir) ==
    LET m == Mkdir(fs, output_dir)
    IN  IF ~m.ok THEN [fs |-> m.fs, raised |-> "OSError"]
        ELSE IF speak_time \notin Columns(df) \/ speak_person \notin Columns(df)
        THEN [fs |-> m.fs, raised |-> "ValueError"]
        ELSE [fs |-> m.fs, raised |-> ""]

Chart(kind, format) == [kind |-> "chart", chart |-> kind, format |-> format]

\* the selected charts written one after the other, up to the first failure
RECURSIVE WriteCharts(_, _, _, _, _)
WriteCharts(fs, output_dir, format, selected, k) ==
    IF k > Len(ChartKinds) THEN [ok |-> TRUE, fs |-> fs, generated |-> <<>>]
    ELSE IF ~selected[k] THEN WriteCharts(fs, output_dir, format, selected, k + 1)
    ELSE LET path == output_dir \o <<ChartKinds[k] \o <<".">> \o format>>
             w == WriteFile(fs, path, Chart(ChartKinds[k], format))
             rest == WriteCharts(w.fs, output_dir, format, selected, k + 1)
         IN  IF ~w.ok THEN [ok |-> FALSE, fs |-> w.fs, generated |-> <<>>]
             ELSE [rest EXCEPT !.generated = <<path>> \o @]

----------------------------------------------------------------------------
(* cli.py: cmd_init, cmd_visualize, cmd_analyze.  A handler's outcome is   *)
(* the filesystem it leaves, its exit code and, for the handlers that look *)
(* for a project, the project name they built the output directory from.   *)

cmd_init(fs, project_name) ==
    LET r == create_project_structure(fs, project_name, <<>>)
    IN  [fs |-> r.fs, exit |-> IF r.raised = "" THEN 0 ELSE 1, project |-> None]

\* args.timeline, args.bar, args.distribution, args.heatmap and args.all give
\* the charts to make: all of them with --all or with no flag at all
Selected(flags, all) ==
    [k \in 1..4 |-> flags[k] \/ all \/ \A j \in 1..4 : ~flags[j]]

cmd_visualize(fs, file, sheet, output, format, flags, all) ==
    LET project_name == detect_project_from_path(fs, file)
        auto == project_name # None /\ output = <<outputs>>
        output_dir == IF auto THEN get_output_dir_for_project(project_name, <<outputs>>)
                      ELSE output
        setup == setup_output_dir(fs, output_dir)
        used == IF auto THEN project_name ELSE None
        sheets == setup.fs.files[file].sheets
        got == get_data(sheets, sheets, sheet, TRUE)
        vis == GraphVisualizer(setup.fs, got.df, output_dir)
        charts == WriteCharts(vis.fs, output_dir, format, Selected(flags, all), 1)
    IN  IF ~Exists(fs, file) THEN [fs |-> fs, exit |-> 1, project |-> None]
        ELSE IF ~setup.ok THEN [fs |-> setup.fs, exit |-> 1, project |-> used]
        ELSE IF ~IsWorkbook(setup.fs, file) THEN [fs |-> setup.fs, exit |-> 1, project |-> used]
        ELSE IF got.raised # "" THEN [fs |-> setup.fs, exit |-> 1, project |-> used]
        ELSE IF vis.raised # "" THEN [fs |-> vis.fs, exit |-> 1, project |-> used]
        ELSE [fs |-> charts.fs, exit |-> IF charts.ok THEN 0 ELSE 1, project |-> used]

analyses == <<"a","n","a","l","y","s","e","s">>
reports == <<"r","e","p","o","r","t","s">>
plots == <<"p","l","o","t","s">>
DotXlsx == <<".","x","l","s","x">>
DotXls == <<".","x","l","s">>
DotCsv == <<".","c","s","v">>
DotTxt == <<".","t","x","t">>
DescriptiveStats ==
    <<"d","e","s","c","r","i","p","t","i","v","e","_","s","t","a","t","s","_">>

\* analyzer.py, StatisticalAnalyzer.__init__: the output directory with its
\* ancestors, then reports and plots in it
StatisticalAnalyzer(fs, output_dir) ==
    LET m == MkdirParents(fs, output_dir)
    IN  IF ~m.ok THEN m
        ELSE MkdirSeq(m.fs, <<output_dir \o <<reports>>, output_dir \o <<plots>>>>)

Report(title) == [kind |-> "report", title |-> title]

\* self.data.select_dtypes(include=[np.number]): the columns whose cells are
\* all numbers
NumericColumns(df) ==
    {j \in 1..Len(df.columns) :
        \A i \in 1..Len(df.rows) : df.rows[i][j].t \in {"num", "nan"}}

\* a cell without a value: NaN in the table
Missing == [t |-> "nan", v |-> "nan"]

ColumnIndex(df, column) == CHOOSE j \in 1..Len(df.columns) : df.columns[j] = column

\* self.data[column]: the cells of the column
ColumnValues(df, column) ==
    [i \in 1..Len(df.rows) |-> df.rows[i][ColumnIndex(df, column)]]

correlation_ == <<"c","o","r","r","e","l","a","t","i","o","n","_">>
DotPng == <<".","p","n","g">>
pearson == <<"p","e","a","r","s","o","n">>
spearman == <<"s","p","e","a","r","m","a","n">>

\* A p-value that scipy returns, in thousandths, or nan.  The functions of
\* scipy are not computed: what they return is given to the operations as
\* stats, a record with one field for each.
P(v) == [nan |-> FALSE, v |-> v]
NaN == [nan |-> TRUE, v |-> 0]

\* p < (num / den) thousandths; a comparison with nan is false
Below(p, num, den) == ~p.nan /\ p.v * den < num

\* p >= num thousandths
AtLeast(p, num) == ~p.nan /\ p.v >= num

\* the places of subset in the table: those of columns when it is given, the
\* numeric ones from left to right otherwise
SubsetColumns(df, columns) ==
    IF columns # None THEN [k \in 1..Len(columns) |-> ColumnIndex(df, columns[k])]
    ELSE [k \in 1..Cardinality(NumericColumns(df)) |->
            CHOOSE j \in NumericColumns(df) :
                Cardinality({m \in NumericColumns(df) : m < j}) = k - 1]

\* subset[[col1, col2]].dropna(): the rows that have a value in both columns
Dropna(df, c1, c2) ==
    SelectSeq(df.rows, LAMBDA row : row[c1].t # "nan" /\ row[c2].t # "nan")

\* the values of a column of rows
Values(rows, c) == [i \in 1..Len(rows) |-> rows[i][c].v]

\* the coefficient and the p-value that the method gives for two series: terms
\* that stand for the numbers
Coefficient(method, x, y) == [coefficient |-> method, x |-> x, y |-> y]
PValue(method, x, y) == [p_value |-> method, x |-> x, y |-> y]

\* subset.corr(method): each entry from the rows that have both values
CorrMatrix(df, cols, method) ==
    [i \in 1..Len(cols) |-> [j \in 1..Len(cols) |->
        Coefficient(method, Values(Dropna(df, cols[i], cols[j]), cols[i]),
                            Values(Dropna(df, cols[i], cols[j]), cols[j]))]]

\* a variant that asks for two points only
PValuesTwoPoints(df, cols, method) ==
    [i \in 1..Len(cols) |-> [j \in 1..Len(cols) |->
        IF i = j THEN P(0)
        ELSE IF Len(Dropna(df, cols[i], cols[j])) > 1
        THEN PValue(method, Values(Dropna(df, cols[i], cols[j]), cols[i]),
                            Values(Dropna(df, cols[i], cols[j]), cols[j]))
        ELSE NaN]]

\* p_values: zeros, then for i != j the p-value of pearsonr or spearmanr on
\* valid_data when it has more than 2 rows, and nan otherwise
PValues(df, cols, method) ==
    [i \in 1..Len(cols) |-> [j \in 1..Len(cols) |->
        IF i = j THEN P(0)
        ELSE IF Len(Dropna(df, cols[i], cols[j])) > 2
        THEN PValue(method, Values(Dropna(df, cols[i], cols[j]), cols[i]),
                            Values(Dropna(df, cols[i], cols[j]), cols[j]))
        ELSE NaN]]

\* correlation_analysis on an analyzer made with output_dir: columns is None or
\* a list of column names of the data; the matrices are indexed by the places
\* of the columns in subset
correlation_analysis(fs, output_dir, df, columns, method, save_plot) ==
    LET width == IF columns # None THEN Len(columns) ELSE Cardinality(NumericColumns(df))
        cols == SubsetColumns(df, columns)
        plot_path == output_dir \o <<plots, correlation_ \o method \o DotPng>>
        saved == IF save_plot THEN WriteFile(fs, plot_path, [kind |-> "plot"])
                 ELSE [ok |-> TRUE, fs |-> fs]
    IN  IF width < 2 THEN [fs |-> fs, raised |-> "ValueError", ret |-> <<>>]
        ELSE IF method \notin {pearson, spearman}
        THEN [fs |-> fs, raised |-> "ValueError", ret |-> <<>>]
        \* subset.corr raises on a column of columns that is not numeric (older
        \* versions of pandas leave the column out, and the loop over the
        \* p-values then raises IndexError)
        ELSE IF \E k \in 1..Len(cols) : cols[k] \notin NumericColumns(df)
        THEN [fs |-> fs, raised |-> "ValueError", ret |-> <<>>]
        ELSE IF ~saved.ok THEN [fs |-> saved.fs, raised |-> "OSError", ret |-> <<>>]
        ELSE [fs |-> saved.fs, raised |-> "",
              ret |-> <<[method |-> method,
                         correlation_matrix |-> CorrMatrix(df, cols, method),
                         p_values |-> PValues(df, cols, method),
                         plot_path |-> IF save_plot THEN plot_path ELSE None]>>]

\* self.data[group_column].unique()
Groups(df, group_column) ==
    {ColumnValues(df, group_column)[i] : i \in 1..Len(df.rows)}

\* str(group): the text of the value, the same for the number 1 and the
\* string "1"
StrOf(cell) == cell.v

\* Series.unique(): the distinct values in the order of their first rows
RECURSIVE Unique(_)
Unique(values) ==
    IF values = <<>> THEN <<>>
    ELSE LET before == Unique(SubSeq(values, 1, Len(values) - 1))
             last == values[Len(values)]
         IN  IF \E i \in 1..Len(before) : before[i] = last THEN before
             ELSE Append(before, last)

\* for i, group1 in enumerate(groups): for group2 in groups[i + 1:], as the
\* list of the pairs of places in the order the loops visit them
RECURSIVE PairsFrom(_, _, _)
PairsFrom(i, j, n) ==
    IF i >= n THEN <<>>
    ELSE IF j > n THEN PairsFrom(i + 1, i + 2, n)
    ELSE <<<<i, j>>>> \o PairsFrom(i, j + 1, n)

\* f"{group1}_vs_{group2}"
PairKey(group1, group2) == <<StrOf(group1), "_vs_", StrOf(group2)>>

\* the dictionary pairwise after the loops: a later pair with the key of an
\* earlier one replaces its entry
Pairwise(groups, stats) ==
    LET pairs == PairsFrom(1, 2, Len(groups))
        n_comparisons == (Len(groups) * (Len(groups) - 1)) \div 2
        key(k) == PairKey(groups[pairs[k][1]], groups[pairs[k][2]])
        last(pair_key) ==
            CHOOSE k \in 1..Len(pairs) :
                key(k) = pair_key /\ \A m \in (k + 1)..Len(pairs) : key(m) # pair_key
    IN  [pair_key \in {key(k) : k \in 1..Len(pairs)} |->
            [p_value |-> stats.ttest_ind[last(pair_key)],
             significant_bonferroni |->
                Below(stats.ttest_ind[last(pair_key)], 50, n_comparisons)]]

\* anova: of the result, the groups, the p-value of f_oneway, the flag and,
\* when posthoc is asked for and the p-value is below 0.05, the pairwise
\* entries and the corrected threshold (as numerator and denominator, in
\* thousandths); the means, deviations, sizes and statistics are left out
anova(fs, df, group_column, value_column, posthoc, stats) ==
    LET groups == Unique(ColumnValues(df, group_column))
        p_value == stats.f_oneway
    IN  IF Len(groups) < 2
        THEN [fs |-> fs, raised |-> "ValueError", ret |-> <<>>]
        ELSE IF posthoc /\ Below(p_value, 50, 1)
        THEN [fs |-> fs, raised |-> "",
              ret |-> <<[groups |-> [i \in 1..Len(groups) |-> StrOf(groups[i])],
                         p_value |-> p_value,
                         significant_at_0_05 |-> Below(p_value, 50, 1),
                         posthoc_pairwise |-> Pairwise(groups, stats),
                         bonferroni_alpha |->
                            <<50, (Len(groups) * (Len(groups) - 1)) \div 2>>]>>]
        ELSE [fs |-> fs, raised |-> "",
              ret |-> <<[groups |-> [i \in 1..Len(groups) |-> StrOf(groups[i])],
                         p_value |-> p_value,
                         significant_at_0_05 |-> Below(p_value, 50, 1)]>>]

\* a variant whose flag is true up to 0.05 included
t_test_at_most(fs, df, group_column, value_column, group1, group2, stats) ==
    LET groups == Unique(ColumnValues(df, group_column))
        g1 == IF group1 = None THEN groups[1] ELSE group1[1]
        g2 == IF group2 # None THEN group2[1]
              ELSE IF Len(groups) > 1 THEN groups[2] ELSE groups[1]
        data(g) == SelectSeq(df.rows, LAMBDA row :
                      row[ColumnIndex(df, group_column)] = g
                      /\ row[ColumnIndex(df, value_column)].t # "nan")
        p_value == stats.ttest_ind[1]
    IN  [fs |-> fs, raised |-> "",
         ret |-> <<[group1 |-> StrOf(g1), group2 |-> StrOf(g2),
                    group1_n |-> Len(data(g1)), group2_n |-> Len(data(g2)),
                    p_value |-> p_value,
                    significant_at_0_05 |-> ~p_value.nan /\ p_value.v <= 50]>>]

\* t_test: group1 and group2 are None or hold a value; of the result, the
\* groups, their sizes after dropna, the p-value of ttest_ind and the flag;
\* the means, the deviations, the statistic and the p-values of the
\* normality checks are left out
t_test(fs, df, group_column, value_column, group1, group2, stats) ==
    LET groups == Unique(ColumnValues(df, group_column))
        g1 == IF group1 = None THEN groups[1] ELSE group1[1]
        g2 == IF group2 # None THEN group2[1]
              ELSE IF Len(groups) > 1 THEN groups[2] ELSE groups[1]
        data(g) == SelectSeq(df.rows, LAMBDA row :
                      row[ColumnIndex(df, group_column)] = g
                      /\ row[ColumnIndex(df, value_column)].t # "nan")
        p_value == stats.ttest_ind[1]
    IN  [fs |-> fs, raised |-> "",
         ret |-> <<[group1 |-> StrOf(g1), group2 |-> StrOf(g2),
                    group1_n |-> Len(data(g1)), group2_n |-> Len(data(g2)),
                    p_value |-> p_value,
                    significant_at_0_05 |-> Below(p_value, 50, 1)]>>]

\* chi_square_test: of the result, the columns, the p-value of
\* chi2_contingency and the flag; the tables are left out
chi_square_test(fs, df, column1, column2, stats) ==
    [fs |-> fs, raised |-> "",
     ret |-> <<[column1 |-> column1, column2 |-> column2,
                p_value |-> stats.chi2_contingency,
                significant_at_0_05 |-> Below(stats.chi2_contingency, 50, 1)]>>]

\* normality_test: the observations are the cells of the column that have a
\* value; of the result, all but the statistic
normality_test(fs, df, column, stats) ==
    LET data == SelectSeq(ColumnValues(df, column), LAMBDA cell : cell.t # "nan")
        p_value == stats.shapiro
    IN  IF Len(data) < 3
        THEN [fs |-> fs, raised |-> "ValueError", ret |-> <<>>]
        ELSE [fs |-> fs, raised |-> "",
              ret |-> <<[column |-> column, n |-> Len(data),
                         p_value |-> p_value,
                         normally_distributed_at_0_05 |-> AtLeast(p_value, 50),
                         interpretation |->
                            IF AtLeast(p_value, 50)
                            THEN "Data appears normally distributed"
                            ELSE "Data deviates from normal distribution"]>>]

\* the default of --output of analyze
DefaultAnalyses == <<outputs, analyses>>

cmd_analyze(fs, file, sheet, output, describe) ==
    LET project_name == detect_project_from_path(fs, file)
        auto == project_name # None /\ output = DefaultAnalyses
        output_dir == IF auto
                      THEN get_output_dir_for_project(project_name, <<outputs>>) \o <<analyses>>
                      ELSE output
        used == IF auto THEN project_name ELSE None
        suffix == Lower(Suffix(Name(file)))
        sheets == fs.files[file].sheets
        got == get_data(sheets, sheets, sheet, TRUE)
        analyzer == StatisticalAnalyzer(fs, output_dir)
        report_path == output_dir \o <<reports, DescriptiveStats \o Stem(Name(file)) \o DotTxt>>
        saved == WriteFile(analyzer.fs, report_path, Report("Descriptive Statistics"))
    IN  IF ~Exists(fs, file) THEN [fs |-> fs, exit |-> 1, project |-> None]
        ELSE IF suffix \in {DotXlsx, DotXls} /\ (~IsWorkbook(fs, file) \/ got.raised # "")
        THEN [fs |-> fs, exit |-> 1, project |-> None]
        ELSE IF suffix = DotCsv /\ ~(IsFile(fs, file) /\ fs.files[file].kind = "csv")
        THEN [fs |-> fs, exit |-> 1, project |-> None]
        ELSE IF suffix \notin {DotXlsx, DotXls, DotCsv}
        THEN [fs |-> fs, exit |-> 1, project |-> None]
        ELSE IF ~analyzer.ok THEN [fs |-> analyzer.fs, exit |-> 1, project |-> used]
        ELSE IF ~describe THEN [fs |-> analyzer.fs, exit |-> 0, project |-> used]
        ELSE [fs |-> saved.fs, exit |-> IF saved.ok THEN 0 ELSE 1, project |-> used]

----------------------------------------------------------------------------
(* converter.py: convert_excel_to_csv, convert_directory                   *)

\* [".xlsx", ".xls", ".xlsm", ".xlsb"]
ExcelSuffixes == {DotXlsx, DotXls, <<".","x","l","s","m">>, <<".","x","l","s","b">>}

\* code points, for the characters of the file names of the model
Code ==
    ("." :> 46) @@ ("C" :> 67) @@ ("E" :> 69) @@ ("L" :> 76) @@ ("S" :> 83) @@ ("X" :> 88) @@
    ("_" :> 95) @@ ("b" :> 98) @@ ("c" :> 99) @@ ("d" :> 100) @@ ("f" :> 102) @@
    ("h" :> 104) @@ ("i" :> 105) @@ ("l" :> 108) @@ ("n" :> 110) @@ ("o" :> 111) @@
    ("s" :> 115) @@ ("t" :> 116) @@ ("u" :> 117) @@ ("v" :> 118) @@ ("x" :> 120) @@
    ("z" :> 122)

\* str.upper() on one character
LowerToUpper == ("x" :> "X") @@ ("l" :> "L") @@ ("s" :> "S") @@ ("m" :> "M") @@ ("b" :> "B")

Upper(s) ==
    [i \in 1..Len(s) |-> IF s[i] \in DOMAIN LowerToUpper THEN LowerToUpper[s[i]] ELSE s[i]]

\* a < b for strings, by code points
RECURSIVE StrLess(_, _)
StrLess(a, b) ==
    IF b = <<>> THEN FALSE
    ELSE IF a = <<>> THEN TRUE
    ELSE IF Head(a) # Head(b) THEN Code[Head(a)] < Code[Head(b)]
    ELSE StrLess(Tail(a), Tail(b))

\* a < b for paths, segment by segment
RECURSIVE PathLess(_, _)
PathLess(a, b) ==
    IF b = <<>> THEN FALSE
    ELSE IF a = <<>> THEN TRUE
    ELSE IF Head(a) # Head(b) THEN StrLess(Head(a), Head(b))
    ELSE PathLess(Tail(a), Tail(b))

\* sorted(paths)
RECURSIVE Sorted(_)
Sorted(S) ==
    IF S = {} THEN <<>>
    ELSE LET least == CHOOSE p \in S : \A q \in S \ {p} : PathLess(p, q)
         IN  <<least>> \o Sorted(S \ {least})

EndsWith(name, tail) ==
    Len(name) >= Len(tail) /\ SubSeq(name, Len(name) - Len(tail) + 1, Len(name)) = tail

\* the entries directly in a directory
Children(fs, directory) ==
    {p \in fs.dirs \cup DOMAIN fs.files : p # <<>> /\ Parent(p) = directory}

\* directory.glob("*" + ext): the entries whose name ends with ext, letter case
\* and all
Glob(fs, directory, ext) == {p \in Children(fs, directory) : EndsWith(Name(p), ext)}

\* for ext in excel_extensions: glob(ext) and glob(ext.upper())
excel_files(fs, directory) ==
    UNION {Glob(fs, directory, ext) \cup Glob(fs, directory, Upper(ext)) : ext \in ExcelSuffixes}

\* sorted(names)
RECURSIVE SortedNames(_)
SortedNames(S) ==
    IF S = {} THEN <<>>
    ELSE LET least == CHOOSE a \in S : \A b \in S \ {a} : StrLess(a, b)
         IN  <<least>> \o SortedNames(S \ {least})

\* a variant that takes every entry of resources for a project
list_projects_every_entry(fs, base_dir) ==
    LET resources_dir == base_dir \o <<resources>>
        projects == {Name(d) : d \in Children(fs, resources_dir)}
    IN  IF ~Exists(fs, resources_dir) THEN [raised |-> "", ret |-> <<>>]
        ELSE IF ~IsDir(fs, resources_dir)
        THEN [raised |-> "NotADirectoryError", ret |-> <<>>]
        ELSE [raised |-> "", ret |-> SortedNames(projects)]

\* a variant that looks in the resources of the working directory
list_projects_cwd(fs, base_dir) ==
    LET resources_dir == <<resources>>
        projects == {Name(d) : d \in {e \in Children(fs, resources_dir) :
                                        IsDir(fs, e) /\ Head(Name(e)) # "."}}
    IN  IF ~Exists(fs, resources_dir) THEN [raised |-> "", ret |-> <<>>]
        ELSE IF ~IsDir(fs, resources_dir)
        THEN [raised |-> "NotADirectoryError", ret |-> <<>>]
        ELSE [raised |-> "", ret |-> SortedNames(projects)]

\* utils.py, list_projects(base_dir): iterdir() on a resources that is a
\* regular file raises NotADirectoryError
list_projects(fs, base_dir) ==
    LET resources_dir == base_dir \o <<resources>>
        projects == {Name(d) : d \in {e \in Children(fs, resources_dir) :
                                        IsDir(fs, e) /\ Head(Name(e)) # "."}}
    IN  IF ~Exists(fs, resources_dir) THEN [raised |-> "", ret |-> <<>>]
        ELSE IF ~IsDir(fs, resources_dir)
        THEN [raised |-> "NotADirectoryError", ret |-> <<>>]
        ELSE [raised |-> "", ret |-> SortedNames(projects)]

DotCsvName(base_name, safe_sheet_name) == base_name \o <<"_">> \o safe_sheet_name \o DotCsv

\* the loop over the sheets: each written to its file, in the order of the
\* workbook, up to the first write that raises
RECURSIVE WriteSheets(_, _, _, _)
WriteSheets(fs, sheets, output_dir, base_name) ==
    IF sheets = <<>> THEN [ok |-> TRUE, fs |-> fs, created |-> <<>>]
    ELSE LET csv_path == output_dir \o
                 <<DotCsvName(base_name, sanitize_sheet_name(Head(sheets).name))>>
             w == WriteFile(fs, csv_path, to_csv(Head(sheets)))
             rest == WriteSheets(w.fs, Tail(sheets), output_dir, base_name)
         IN  IF ~w.ok THEN [ok |-> FALSE, fs |-> w.fs, created |-> <<>>]
             ELSE [rest EXCEPT !.created = <<csv_path>> \o @]

\* a variant that always writes beside the workbook
convert_excel_to_csv_beside(fs, excel_file, output_dir) ==
    LET wrote == WriteSheets(fs, fs.files[excel_file].sheets, Parent(excel_file),
                             Stem(Name(excel_file)))
    IN  IF ~Exists(fs, excel_file)
        THEN [fs |-> fs, raised |-> "FileNotFoundError", ret |-> <<>>]
        ELSE IF Lower(Suffix(Name(excel_file))) \notin ExcelSuffixes
        THEN [fs |-> fs, raised |-> "ValueError", ret |-> <<>>]
        ELSE IF ~IsWorkbook(fs, excel_file)
        THEN [fs |-> fs, raised |-> "ValueError", ret |-> <<>>]
        ELSE IF ~wrote.ok THEN [fs |-> wrote.fs, raised |-> "OSError", ret |-> <<>>]
        ELSE [fs |-> wrote.fs, raised |-> "", ret |-> wrote.created]

\* a variant that looks at the extension before it looks for the file
convert_excel_to_csv_suffix_first(fs, excel_file, output_dir) ==
    LET made == IF output_dir = None THEN [ok |-> TRUE, fs |-> fs]
                ELSE MkdirParents(fs, output_dir)
        dest == IF output_dir = None THEN Parent(excel_file) ELSE output_dir
        wrote == WriteSheets(made.fs, made.fs.files[excel_file].sheets, dest,
                             Stem(Name(excel_file)))
    IN  IF Lower(Suffix(Name(excel_file))) \notin ExcelSuffixes
        THEN [fs |-> fs, raised |-> "ValueError", ret |-> <<>>]
        ELSE IF ~Exists(fs, excel_file)
        THEN [fs |-> fs, raised |-> "FileNotFoundError", ret |-> <<>>]
        ELSE IF ~made.ok THEN [fs |-> made.fs, raised |-> "OSError", ret |-> <<>>]
        ELSE IF ~IsWorkbook(made.fs, excel_file)
        THEN [fs |-> made.fs, raised |-> "ValueError", ret |-> <<>>]
        ELSE IF ~wrote.ok THEN [fs |-> wrote.fs, raised |-> "OSError", ret |-> <<>>]
        ELSE [fs |-> wrote.fs, raised |-> "", ret |-> wrote.created]

\* The outcome of convert_excel_to_csv(excel_file, output_dir) on fs: the
\* filesystem it leaves, the exception it raised ("" when it returned) and the
\* list it returned.  output_dir is None when it is not given.
convert_excel_to_csv(fs, excel_file, output_dir) ==
    LET made == IF output_dir = None THEN [ok |-> TRUE, fs |-> fs]
                ELSE MkdirParents(fs, output_dir)
        dest == IF output_dir = None THEN Parent(excel_file) ELSE output_dir
        wrote == WriteSheets(made.fs, made.fs.files[excel_file].sheets, dest,
                             Stem(Name(excel_file)))
    IN  IF ~Exists(fs, excel_file)
        THEN [fs |-> fs, raised |-> "FileNotFoundError", ret |-> <<>>]
        ELSE IF Lower(Suffix(Name(excel_file))) \notin ExcelSuffixes
        THEN [fs |-> fs, raised |-> "ValueError", ret |-> <<>>]
        ELSE IF ~made.ok THEN [fs |-> made.fs, raised |-> "OSError", ret |-> <<>>]
        ELSE IF ~IsWorkbook(made.fs, excel_file)
        THEN [fs |-> made.fs, raised |-> "ValueError", ret |-> <<>>]
        ELSE IF ~wrote.ok THEN [fs |-> wrote.fs, raised |-> "OSError", ret |-> <<>>]
        ELSE [fs |-> wrote.fs, raised |-> "", ret |-> wrote.created]

\* the loop of convert_directory over the sorted files: a conversion that
\* raises leaves what it wrote and is recorded with an empty list
RECURSIVE ConvertEach(_, _, _)
ConvertEach(fs, todo, output_dir) ==
    IF todo = <<>> THEN [fs |-> fs, results |-> <<>>]
    ELSE LET c == convert_excel_to_csv(fs, Head(todo), output_dir)
             rest == ConvertEach(c.fs, Tail(todo), output_dir)
         IN  [rest EXCEPT !.results =
                 <<[file |-> Head(todo), csv |-> IF c.raised = "" THEN c.ret ELSE <<>>]>> \o @]

\* a variant whose loop ends at the first conversion that raises
RECURSIVE ConvertUntilError(_, _, _)
ConvertUntilError(fs, todo, output_dir) ==
    IF todo = <<>> THEN [fs |-> fs, results |-> <<>>]
    ELSE LET c == convert_excel_to_csv(fs, Head(todo), output_dir)
             rest == ConvertUntilError(c.fs, Tail(todo), output_dir)
         IN  IF c.raised # ""
             THEN [fs |-> c.fs, results |-> <<[file |-> Head(todo), csv |-> <<>>]>>]
             ELSE [rest EXCEPT !.results = <<[file |-> Head(todo), csv |-> c.ret]>> \o @]

convert_directory_until_error(fs, directory, output_dir) ==
    LET done == ConvertUntilError(fs, Sorted(excel_files(fs, directory)), output_dir)
    IN  IF ~Exists(fs, directory)
        THEN [fs |-> fs, raised |-> "FileNotFoundError", ret |-> <<>>]
        ELSE IF ~IsDir(fs, directory)
        THEN [fs |-> fs, raised |-> "ValueError", ret |-> <<>>]
        ELSE [fs |-> done.fs, raised |-> "", ret |-> done.results]

\* The outcome of convert_directory(directory, output_dir) on fs; the mapping
\* it returns is the sequence of its entries [file, csv] in the order they
\* were put in.
convert_directory(fs, directory, output_dir) ==
    LET done == ConvertEach(fs, Sorted(excel_files(fs, directory)), output_dir)
    IN  IF ~Exists(fs, directory)
        THEN [fs |-> fs, raised |-> "FileNotFoundError", ret |-> <<>>]
        ELSE IF ~IsDir(fs, directory)
        THEN [fs |-> fs, raised |-> "ValueError", ret |-> <<>>]
        ELSE [fs |-> done.fs, raised |-> "", ret |-> done.results]

\* some conversion of the batch was recorded with an empty list
AnyFailed(results) == \E i \in 1..Len(results) : results[i].csv = <<>>

\* cli.py, cmd_convert(path, output): the filesystem it leaves, its exit code,
\* and whether an error was reported on the way (by the handler, or by
\* convert_directory for one of the files); output is None when -o is not given
cmd_convert(fs, path, output) ==
    LET one == convert_excel_to_csv(fs, path, output)
        many == convert_directory(fs, path, output)
    IN  IF ~Exists(fs, path) THEN [fs |-> fs, exit |-> 1, reported |-> TRUE]
        ELSE IF IsFile(fs, path)
        THEN [fs |-> one.fs, exit |-> IF one.raised = "" THEN 0 ELSE 1,
              reported |-> one.raised # ""]
        ELSE [fs |-> many.fs, exit |-> IF many.raised = "" THEN 0 ELSE 1,
              reported |-> many.raised # "" \/ AnyFailed(many.ret)]

\* cli.py, cmd_list: list_projects() is called outside any try, so what it
\* raises leaves the handler; escaped is the exception, "" when it returned
cmd_list(fs) ==
    LET r == list_projects(fs, <<>>)
    IN  [fs |-> fs, exit |-> 0, escaped |-> r.raised]

----------------------------------------------------------------------------
(* The naming utilities, each called on a string drawn at the start.       *)

\* names around the length limit of validate_project_name
LongNames ==
    { Repeat(c, n) : c \in {"c", "!", "-"}, n \in {MaxNameLen, MaxNameLen + 1} }
    \cup { <<"-">> \o Repeat("c", MaxNameLen) }

NoCall == [op |-> "none"]

\* no ExcelReader was made
NoReader == [file_sheets |-> <<>>, workbook_data |-> <<>>]

FsIdle ==
    /\ dirs = {} /\ files = NoFiles /\ pre = EmptyFs
    /\ call = NoCall /\ asProject = {}

InitNames ==
    /\ text \in Strings(MaxLen) \cup LongNames
    /\ fn = "none"
    /\ ret = <<>>
    /\ FsIdle
    /\ reader = NoReader

ValidateProjectName ==
    /\ fn' = "validate_project_name"
    /\ ret' = validate_project_name(text)
    /\ UNCHANGED <<text, fsVars>>

\* the sanitizers are tried on the short strings only
SanitizeFilename ==
    /\ Len(text) <= MaxLen
    /\ fn' = "sanitize_filename"
    /\ ret' = sanitize_filename(text)
    /\ UNCHANGED <<text, fsVars>>

SanitizeSheetName ==
    /\ Len(text) <= MaxLen
    /\ fn' = "sanitize_sheet_name"
    /\ ret' = sanitize_sheet_name(text)
    /\ UNCHANGED <<text, fsVars>>

\* base_dir is left out (and is then "outputs") or given
GetOutputDirForProject ==
    /\ Len(text) <= MaxLen
    /\ \E given \in BOOLEAN :
          LET base_dir == IF given THEN <<<<"w">>>> ELSE <<outputs>>
          IN  /\ fn' = "get_output_dir_for_project"
              /\ ret' = [given |-> given, base_dir |-> base_dir,
                         dir |-> get_output_dir_for_project(text, base_dir)]
    /\ UNCHANGED <<text, fsVars>>

NextNames ==
    \/ ValidateProjectName
    \/ SanitizeFilename
    \/ SanitizeSheetName
    \/ GetOutputDirForProject

SpecNames == InitNames /\ [][NextNames]_vars

----------------------------------------------------------------------------
(* The project commands on a working directory.  At the start it holds what *)
(* the user put there by hand; then the library call and the handlers run  *)
(* in any order with any arguments.                                        *)

NmC == <<"c">>
NmCon == <<"c","o","n">>
NmSp == <<"c"," ","o">>

ProjectNames == {NmC, NmCon, NmSp}

\* base_dir: the working directory, or a directory w in it
BaseDirs == {<<>>, <<<<"w">>>>}

DataXlsx == <<"d",".","x","l","s","x">>
DataCsv == <<"d",".","c","s","v">>

Timeline ==
    [kind |-> "workbook",
     sheets |-> <<[name |-> <<"A">>, columns |-> <<speak_time, speak_person>>,
                   rows |-> <<<<Num("1"), Str("a")>>, <<Num("2"), Str("b")>>>>]>>]

CsvTable ==
    [kind |-> "csv", header |-> <<<<"x">>, <<"y">>>>, lines |-> <<<<"1", "a">>, <<"2", "b">>>>]

PlainFile == [kind |-> "text"]

\* what the user may have put into the working directory: a workbook in a
\* hand-made folder whose name has a space, a table in the resources of c,
\* a regular file called outputs
UserFiles ==
    { [path |-> <<resources, NmSp, DataXlsx>>, content |-> Timeline],
      [path |-> <<resources, NmC, DataCsv>>, content |-> CsvTable],
      [path |-> <<outputs>>, content |-> PlainFile] }

RECURSIVE UserTree(_)
UserTree(S) ==
    IF S = {} THEN EmptyFs
    ELSE LET f == CHOOSE f \in S : TRUE
         IN  WithFile(UserTree(S \ {f}), f.path, f.content)

\* the files the handlers are called on
FileArgs ==
    {<<resources, NmSp, DataXlsx>>, <<resources, NmC, DataCsv>>, <<resources, NmC, DataXlsx>>}

Fs == [dirs |-> dirs, files |-> files]

InitProjects ==
    /\ \E S \in SUBSET UserFiles :
          /\ dirs = UserTree(S).dirs
          /\ files = UserTree(S).files
          /\ pre = UserTree(S)
    /\ call = NoCall
    /\ asProject = {}
    /\ reader = NoReader
    /\ text = <<>> /\ fn = "none" /\ ret = <<>>

\* the directories made between before and after that lie at or below root
MadeUnder(before, after, root) ==
    { d \in after.dirs \ before.dirs :
        Len(d) >= Len(root) /\ SubSeq(d, 1, Len(root)) = root }

\* the library call create_project_structure(name, base_dir)
CreateProject ==
    \E name \in ProjectNames, base \in BaseDirs :
        LET r == create_project_structure(Fs, name, base)
        IN  /\ dirs' = r.fs.dirs
            /\ files' = r.fs.files
            /\ pre' = Fs
            /\ call' = [op |-> "create_project_structure", name |-> name, base |-> base,
                        raised |-> r.raised, msg |-> r.msg, ret |-> r.ret]
            /\ asProject' = asProject \cup
                  { [name |-> name, path |-> d] :
                      d \in (r.fs.dirs \ dirs) \cap
                            {project_paths(name, base)[i] : i \in 1..3} }
            /\ UNCHANGED <<reader, nameVars>>

\* excel-to-graph init <project_name>
CmdInit ==
    \E name \in ProjectNames :
        LET r == cmd_init(Fs, name)
        IN  /\ dirs' = r.fs.dirs
            /\ files' = r.fs.files
            /\ pre' = Fs
            /\ call' = [op |-> "cmd_init", name |-> name, exit |-> r.exit]
            /\ asProject' = asProject \cup
                  { [name |-> name, path |-> d] :
                      d \in (r.fs.dirs \ dirs) \cap
                            {project_paths(name, <<>>)[i] : i \in 1..3} }
            /\ UNCHANGED <<reader, nameVars>>

\* excel-to-graph visualize <file> [-s SHEET] [-o DIR]
CmdVisualize ==
    \E file \in FileArgs, sheet \in {None, <<"A">>}, output \in {<<outputs>>, <<<<"o">>>>} :
        LET r == cmd_visualize(Fs, file, sheet, output, png,
                               <<FALSE, FALSE, FALSE, FALSE>>, FALSE)
        IN  /\ dirs' = r.fs.dirs
            /\ files' = r.fs.files
            /\ pre' = Fs
            /\ call' = [op |-> "cmd_visualize", file |-> file, output |-> output,
                        exit |-> r.exit, project |-> r.project]
            /\ asProject' = asProject \cup
                  IF r.project = None THEN {}
                  ELSE { [name |-> r.project, path |-> d] :
                           d \in MadeUnder(Fs, r.fs, <<outputs, r.project>>) }
            /\ UNCHANGED <<reader, nameVars>>

\* excel-to-graph analyze <file> [--describe]
CmdAnalyze ==
    \E file \in FileArgs, describe \in BOOLEAN :
        LET output == DefaultAnalyses
            r == cmd_analyze(Fs, file, None, output, describe)
        IN  /\ dirs' = r.fs.dirs
            /\ files' = r.fs.files
            /\ pre' = Fs
            /\ call' = [op |-> "cmd_analyze", file |-> file, output |-> output,
                        exit |-> r.exit, project |-> r.project]
            /\ asProject' = asProject \cup
                  IF r.project = None THEN {}
                  ELSE { [name |-> r.project, path |-> d] :
                           d \in MadeUnder(Fs, r.fs, <<outputs, r.project>>) }
            /\ UNCHANGED <<reader, nameVars>>

NextProjects == CreateProject \/ CmdInit \/ CmdVisualize \/ CmdAnalyze

SpecProjects == InitProjects /\ [][NextProjects]_vars

----------------------------------------------------------------------------
(* The converter on a directory "in" of workbooks.  At the start it holds  *)
(* some of four spreadsheet files, a text file and a subdirectory with a   *)
(* workbook; then convert_excel_to_csv and convert_directory are called in *)
(* any order.                                                              *)

In == <<"i","n">>
Out == <<"o","u","t">>
Sub == <<"s","u","b">>

Table(x) == [columns |-> <<<<"x">>, <<"y">>>>, rows |-> <<<<Num("1"), Str(x)>>>>]

Sheet(name, df) == [name |-> name, columns |-> df.columns, rows |-> df.rows]

\* two sheets whose names give different tokens
WbTwo ==
    [kind |-> "workbook",
     sheets |-> <<Sheet(<<"C">>, Table("a")), Sheet(<<"c"," ","o">>, Table("b"))>>]

\* two sheets whose names are distinct and give the same token
WbClash ==
    [kind |-> "workbook",
     sheets |-> <<Sheet(<<"c"," ","o">>, Table("a")), Sheet(<<"c","_","o">>, Table("2"))>>]

\* one sheet whose name gives no token of its own
WbOne == [kind |-> "workbook", sheets |-> <<Sheet(<<"!">>, Table("a"))>>]

BXlsx == <<"b",".","x","l","s","x">>
EXLSX == <<"E",".","X","L","S","X">>
FXlsx == <<"f",".","X","l","s","x">>
HTxt == <<"h",".","t","x","t">>
\* a name no file of "in" has
NTxt == <<"n",".","t","x","t">>
ZXlsx == <<"z",".","x","l","s","x">>

\* the spreadsheet files "in" may hold: one that is no workbook, and three
\* workbooks whose extensions are in lower, upper and mixed case
Spreadsheets ==
    { [path |-> <<In, BXlsx>>, content |-> PlainFile],
      [path |-> <<In, DataXlsx>>, content |-> WbTwo],
      [path |-> <<In, EXLSX>>, content |-> WbClash],
      [path |-> <<In, FXlsx>>, content |-> WbOne] }

\* what "in" holds in every case
Others ==
    { [path |-> <<In, HTxt>>, content |-> PlainFile],
      [path |-> <<In, Sub, ZXlsx>>, content |-> WbOne] }

InitConvert ==
    /\ \E S \in SUBSET Spreadsheets :
          /\ dirs = UserTree(S \cup Others).dirs
          /\ files = UserTree(S \cup Others).files
          /\ pre = UserTree(S \cup Others)
    /\ call = NoCall
    /\ asProject = {}
    /\ reader = NoReader
    /\ text = <<>> /\ fn = "none" /\ ret = <<>>

\* convert_excel_to_csv(excel_file, output_dir)
ConvertFile ==
    \E excel_file \in {<<In, BXlsx>>, <<In, DataXlsx>>, <<In, EXLSX>>, <<In, HTxt>>,
                       <<In, NTxt>>},
       output_dir \in {None, <<Out>>, <<In, HTxt>>} :
        LET r == convert_excel_to_csv(Fs, excel_file, output_dir)
        IN  /\ dirs' = r.fs.dirs
            /\ files' = r.fs.files
            /\ pre' = Fs
            /\ call' = [op |-> "convert_excel_to_csv", file |-> excel_file,
                        output_dir |-> output_dir, raised |-> r.raised, ret |-> r.ret]
            /\ UNCHANGED <<asProject, reader, nameVars>>

\* convert_directory(directory, output_dir)
ConvertDirectory ==
    \E directory \in {<<In>>, <<In, HTxt>>, <<Sub>>}, output_dir \in {None, <<Out>>} :
        LET r == convert_directory(Fs, directory, output_dir)
        IN  /\ dirs' = r.fs.dirs
            /\ files' = r.fs.files
            /\ pre' = Fs
            /\ call' = [op |-> "convert_directory", directory |-> directory,
                        output_dir |-> output_dir, raised |-> r.raised, ret |-> r.ret]
            /\ UNCHANGED <<asProject, reader, nameVars>>

NextConvert == ConvertFile \/ ConvertDirectory

\* a table with the role columns of the charts
Roles ==
    [columns |-> <<speak_time, speak_person>>, rows |-> <<<<Num("1"), Str("a")>>>>]

\* a table of three rows and two numeric columns
Triple ==
    [columns |-> <<<<"x">>, <<"y">>>>,
     rows |-> <<<<Num("1"), Num("1")>>, <<Num("2"), Num("1")>>, <<Num("1"), Num("2")>>>>]

kendall == <<"k","e","n","d","a","l","l">>

\* GraphVisualizer(data, output_dir)
NewGraphVisualizer ==
    \E df \in {Roles, Table("a")}, output_dir \in {<<Out>>, <<Out, Sub>>, <<In, HTxt>>} :
        LET r == GraphVisualizer(Fs, df, output_dir)
        IN  /\ dirs' = r.fs.dirs
            /\ files' = r.fs.files
            /\ pre' = Fs
            /\ call' = [op |-> "GraphVisualizer", df |-> df, output_dir |-> output_dir,
                        raised |-> r.raised, ret |-> <<>>]
            /\ UNCHANGED <<asProject, reader, nameVars>>

\* four rows and three numeric columns with gaps: x and y have three rows in
\* common, x and z two, y and z one
Gappy ==
    [columns |-> <<<<"x">>, <<"y">>, <<"z">>>>,
     rows |-> <<<<Num("1"), Num("1"), Num("2")>>, <<Num("2"), Num("1"), Missing>>,
                <<Num("1"), Num("2"), Missing>>, <<Num("2"), Missing, Num("1")>>>>]

\* StatisticalAnalyzer(data, "out").correlation_analysis(columns, method)
CorrelationAnalysis ==
    \E df \in {Triple, Table("a"), Gappy}, columns \in {None, <<<<"x">>>>, <<<<"y">>, <<"x">>>>},
       method \in {pearson, spearman, kendall} :
        LET a == StatisticalAnalyzer(Fs, <<Out>>)
            r == correlation_analysis(a.fs, <<Out>>, df, columns, method, TRUE)
        IN  /\ a.ok
            /\ dirs' = r.fs.dirs
            /\ files' = r.fs.files
            /\ pre' = a.fs
            /\ call' = [op |-> "correlation_analysis", df |-> df, columns |-> columns,
                        method |-> method, raised |-> r.raised, ret |-> r.ret]
            /\ UNCHANGED <<asProject, reader, nameVars>>

\* rows whose labels are the number 1, the string "1" and the number 2
Mixed ==
    [columns |-> <<<<"x">>, <<"y">>>>,
     rows |-> <<<<Num("1"), Num("1")>>, <<Num("1"), Num("1")>>,
                <<Num("2"), Str("1")>>, <<Num("2"), Str("1")>>,
                <<Num("1"), Num("2")>>, <<Num("2"), Num("2")>>>>]

\* rows with three labels whose texts differ
Labelled ==
    [columns |-> <<<<"x">>, <<"y">>>>,
     rows |-> <<<<Num("1"), Str("a")>>, <<Num("1"), Str("a")>>,
                <<Num("2"), Str("b")>>, <<Num("2"), Str("b")>>,
                <<Num("1"), Num("1")>>, <<Num("2"), Num("1")>>>>]

\* what scipy may return: p-values on both sides of 0.05 and of 0.05 / 3, and
\* nan; ttest_ind has one p-value for each pair, in the order of the loops
StatsChoices ==
    { [f_oneway |-> P(10), ttest_ind |-> <<P(16), P(17), P(49)>>,
       chi2_contingency |-> P(49), shapiro |-> P(49)],
      [f_oneway |-> P(49), ttest_ind |-> <<P(50), P(16), NaN>>,
       chi2_contingency |-> P(50), shapiro |-> P(50)],
      [f_oneway |-> P(50), ttest_ind |-> <<P(49), P(10), P(10)>>,
       chi2_contingency |-> NaN, shapiro |-> NaN] }

\* StatisticalAnalyzer(data, "out").anova(group_column, "x", posthoc)
Anova ==
    \E df \in {Triple, Table("a"), Mixed, Labelled}, group_column \in {<<"x">>, <<"y">>},
       posthoc \in BOOLEAN, stats \in StatsChoices :
        LET a == StatisticalAnalyzer(Fs, <<Out>>)
            r == anova(a.fs, df, group_column, <<"x">>, posthoc, stats)
        IN  /\ a.ok
            /\ dirs' = r.fs.dirs
            /\ files' = r.fs.files
            /\ pre' = a.fs
            /\ call' = [op |-> "anova", df |-> df, group_column |-> group_column,
                        posthoc |-> posthoc, raised |-> r.raised, ret |-> r.ret]
            /\ UNCHANGED <<asProject, reader, nameVars>>

\* StatisticalAnalyzer(data, "out").normality_test("x")
NormalityTest ==
    \E df \in {Triple, Table("a")}, stats \in StatsChoices :
        LET a == StatisticalAnalyzer(Fs, <<Out>>)
            r == normality_test(a.fs, df, <<"x">>, stats)
        IN  /\ a.ok
            /\ dirs' = r.fs.dirs
            /\ files' = r.fs.files
            /\ pre' = a.fs
            /\ call' = [op |-> "normality_test", df |-> df, column |-> <<"x">>,
                        raised |-> r.raised, ret |-> r.ret]
            /\ UNCHANGED <<asProject, reader, nameVars>>

\* StatisticalAnalyzer(data, "out").t_test("y", "x", group1, group2)
TTest ==
    \E df \in {Triple, Mixed}, group1 \in {None, <<Num("2")>>}, stats \in StatsChoices :
        LET a == StatisticalAnalyzer(Fs, <<Out>>)
            r == t_test(a.fs, df, <<"y">>, <<"x">>, group1, None, stats)
        IN  /\ a.ok
            /\ dirs' = r.fs.dirs
            /\ files' = r.fs.files
            /\ pre' = a.fs
            /\ call' = [op |-> "t_test", df |-> df, group1 |-> group1,
                        raised |-> r.raised, ret |-> r.ret]
            /\ UNCHANGED <<asProject, reader, nameVars>>

\* StatisticalAnalyzer(data, "out").chi_square_test("x", "y")
ChiSquareTest ==
    \E df \in {Triple, Mixed}, stats \in StatsChoices :
        LET a == StatisticalAnalyzer(Fs, <<Out>>)
            r == chi_square_test(a.fs, df, <<"x">>, <<"y">>, stats)
        IN  /\ a.ok
            /\ dirs' = r.fs.dirs
            /\ files' = r.fs.files
            /\ pre' = a.fs
            /\ call' = [op |-> "chi_square_test", df |-> df,
                        raised |-> r.raised, ret |-> r.ret]
            /\ UNCHANGED <<asProject, reader, nameVars>>

\* The library operations with preconditions, on "in" with its text file, its
\* subdirectory and at most the workbook d.xlsx.
InitLibrary ==
    /\ \E S \in SUBSET {[path |-> <<In, DataXlsx>>, content |-> WbTwo]} :
          /\ dirs = UserTree(S \cup Others).dirs
          /\ files = UserTree(S \cup Others).files
          /\ pre = UserTree(S \cup Others)
    /\ call = NoCall
    /\ asProject = {}
    /\ reader = NoReader
    /\ text = <<>> /\ fn = "none" /\ ret = <<>>

NextLibrary ==
    \/ ConvertFile
    \/ NewGraphVisualizer
    \/ CorrelationAnalysis
    \/ Anova
    \/ NormalityTest
    \/ TTest
    \/ ChiSquareTest

SpecLibrary == InitLibrary /\ [][NextLibrary]_vars

SpecConvert == InitConvert /\ [][NextConvert]_vars

----------------------------------------------------------------------------
(* The lookups of utils.py, list_projects and detect_project_from_path, on *)
(* a working directory drawn at the start: folders and files in resources  *)
(* and in the resources of a directory w, or a regular file in the place   *)
(* of resources.                                                           *)

W == <<"w">>
NmUpper == <<"C">>
NmHidden == <<".","h">>

Directory == [kind |-> "directory"]

LookupEntries ==
    { [path |-> <<resources, NmC>>, content |-> Directory],
      [path |-> <<resources, NmUpper>>, content |-> Directory],
      [path |-> <<resources, NmHidden>>, content |-> Directory],
      [path |-> <<resources, DataXlsx>>, content |-> PlainFile],
      [path |-> <<resources>>, content |-> PlainFile],
      [path |-> <<W, resources, NmCon>>, content |-> Directory],
      [path |-> <<W, resources, NmC>>, content |-> PlainFile],
      [path |-> <<W, resources, DataXlsx>>, content |-> PlainFile] }

\* no entry lies below a regular file
Consistent(S) ==
    \A f, e \in S :
        f.content # Directory /\ e # f => f.path \notin Prefixes(e.path)

RECURSIVE LookupTree(_)
LookupTree(S) ==
    IF S = {} THEN EmptyFs
    ELSE LET e == CHOOSE e \in S : TRUE
             rest == LookupTree(S \ {e})
         IN  IF e.content = Directory THEN MkdirParents(rest, e.path).fs
             ELSE WithFile(rest, e.path, e.content)

InitLookup ==
    /\ \E S \in SUBSET LookupEntries :
          /\ Consistent(S)
          /\ dirs = LookupTree(S).dirs
          /\ files = LookupTree(S).files
          /\ pre = LookupTree(S)
    /\ call = NoCall
    /\ asProject = {}
    /\ reader = NoReader
    /\ text = <<>> /\ fn = "none" /\ ret = <<>>

\* list_projects(base_dir)
ListProjects ==
    \E base_dir \in {<<>>, <<W>>, <<NmC>>} :
        LET r == list_projects(Fs, base_dir)
        IN  /\ call' = [op |-> "list_projects", base_dir |-> base_dir,
                        raised |-> r.raised, ret |-> r.ret]
            /\ pre' = Fs
            /\ UNCHANGED <<dirs, files, asProject, reader, nameVars>>

\* the paths detect_project_from_path is tried on
LookupPaths ==
    { <<resources, NmC, DataXlsx>>,
      <<resources, DataXlsx>>,
      <<resources, NmC>>,
      <<resources>>,
      <<W, DataXlsx>>,
      <<W, resources, NmCon, DataXlsx>>,
      <<W, resources, NmC>>,
      <<W, resources, DataXlsx>>,
      <<resources, NmUpper, resources, NmC, DataXlsx>> }

\* detect_project_from_path(file_path)
DetectProject ==
    \E file_path \in LookupPaths :
        /\ call' = [op |-> "detect_project_from_path", file_path |-> file_path,
                    raised |-> "", ret |-> detect_project_from_path(Fs, file_path)]
        /\ pre' = Fs
        /\ UNCHANGED <<dirs, files, asProject, reader, nameVars>>

NextLookup == ListProjects \/ DetectProject

SpecLookup == InitLookup /\ [][NextLookup]_vars

----------------------------------------------------------------------------
(* The five handlers of the command line on a working directory that holds *)
(* some of: a workbook with the role columns in resources/c, an unreadable *)
(* b.xlsx and a workbook d.xlsx in "in", a regular file called resources.  *)

CommandEntries ==
    { [path |-> <<resources, NmC, DataXlsx>>, content |-> Timeline],
      [path |-> <<In, BXlsx>>, content |-> PlainFile],
      [path |-> <<In, DataXlsx>>, content |-> WbOne],
      [path |-> <<resources>>, content |-> PlainFile] }

InitCommands ==
    /\ \E S \in SUBSET CommandEntries :
          /\ Consistent(S)
          /\ dirs = LookupTree(S).dirs
          /\ files = LookupTree(S).files
          /\ pre = LookupTree(S)
    /\ call = NoCall
    /\ asProject = {}
    /\ reader = NoReader
    /\ text = <<>> /\ fn = "none" /\ ret = <<>>

\* excel-to-graph init <project_name>
RunInit ==
    \E name \in {NmC, NmSp} :
        LET r == cmd_init(Fs, name)
        IN  /\ dirs' = r.fs.dirs
            /\ files' = r.fs.files
            /\ pre' = Fs
            /\ call' = [op |-> "cmd_init", name |-> name, exit |-> r.exit, escaped |-> "",
                        reported |-> create_project_structure(Fs, name, <<>>).raised # ""]
            /\ UNCHANGED <<asProject, reader, nameVars>>

\* excel-to-graph convert <path>
RunConvert ==
    \E path \in {<<In>>, <<In, BXlsx>>, <<In, DataXlsx>>, <<W>>} :
        \E r \in {cmd_convert(Fs, path, None)} :
            /\ dirs' = r.fs.dirs
            /\ files' = r.fs.files
            /\ pre' = Fs
            /\ call' = [op |-> "cmd_convert", path |-> path, exit |-> r.exit,
                        escaped |-> "", reported |-> r.reported]
            /\ UNCHANGED <<asProject, reader, nameVars>>

\* excel-to-graph list; exit is what the handler returned when nothing escaped
RunList ==
    LET r == cmd_list(Fs)
    IN  /\ call' = [op |-> "cmd_list", exit |-> r.exit, escaped |-> r.escaped,
                    reported |-> FALSE]
        /\ pre' = Fs
        /\ UNCHANGED <<dirs, files, asProject, reader, nameVars>>

\* excel-to-graph analyze <file>
RunAnalyze ==
    \E file \in {<<resources, NmC, DataXlsx>>, <<In, BXlsx>>} :
        LET r == cmd_analyze(Fs, file, None, DefaultAnalyses, FALSE)
        IN  /\ dirs' = r.fs.dirs
            /\ files' = r.fs.files
            /\ pre' = Fs
            /\ call' = [op |-> "cmd_analyze", file |-> file, exit |-> r.exit,
                        escaped |-> "", reported |-> ~IsWorkbook(Fs, file)]
            /\ UNCHANGED <<asProject, reader, nameVars>>

\* the chart flags tried: none, --timeline, --bar --heatmap
FlagChoices ==
    { <<FALSE, FALSE, FALSE, FALSE>>, <<TRUE, FALSE, FALSE, FALSE>>,
      <<FALSE, TRUE, FALSE, TRUE>> }

\* excel-to-graph visualize <file> [-s SHEET] [-f FORMAT] [flags] [--all]
RunVisualize ==
    \E file \in {<<resources, NmC, DataXlsx>>, <<In, BXlsx>>}, sheet \in {None, <<"A">>},
       format \in {png, html}, flags \in FlagChoices, all \in BOOLEAN :
        LET r == cmd_visualize(Fs, file, sheet, <<outputs>>, format, flags, all)
        IN  /\ dirs' = r.fs.dirs
            /\ files' = r.fs.files
            /\ pre' = Fs
            /\ call' = [op |-> "cmd_visualize", file |-> file, sheet |-> sheet,
                        output |-> <<outputs>>, format |-> format, flags |-> flags,
                        all |-> all, project |-> r.project, exit |-> r.exit,
                        escaped |-> "", reported |-> ~IsWorkbook(Fs, file)]
            /\ UNCHANGED <<asProject, reader, nameVars>>

NextCommands == RunInit \/ RunConvert \/ RunList \/ RunAnalyze \/ RunVisualize

SpecCommands == InitCommands /\ [][NextCommands]_vars

----------------------------------------------------------------------------
(* An ExcelReader on a workbook of two sheets, "B" then "A".  The headers  *)
(* of "B" are drawn at the start, pairwise distinct as pd.read_excel gives *)
(* them; then load_all_sheets, get_data and get_timeline_data are called   *)
(* in any order.                                                           *)

\* Most columns of the sheet "B".
MaxColumns == 3

SheetA == <<"A">>
SheetB == <<"B">>
\* a sheet the workbook does not have
SheetZ == <<"Z">>

Headers == {<<" ","C">>, <<"c">>, <<"x">>, speak_time}

ColumnLists ==
    { cs \in UNION {[1..n -> Headers] : n \in 1..MaxColumns} :
        \A i, j \in 1..Len(cs) : i # j => cs[i] # cs[j] }

\* a table of one row under the headers cs
Wide(cs) == [columns |-> cs, rows |-> <<[j \in 1..Len(cs) |-> Num("1")]>>]

ReaderSheets(cs) == <<Sheet(SheetB, Wide(cs)), Sheet(SheetA, Table("a"))>>

InitReader ==
    /\ \E cs \in ColumnLists :
          reader = [file_sheets |-> ReaderSheets(cs), workbook_data |-> <<>>]
    /\ FsIdle
    /\ text = <<>> /\ fn = "none" /\ ret = <<>>

\* what the sheet_name = None branch leaves in workbook_data
AfterDefault(r, sheet_name) ==
    IF sheet_name = None /\ r.workbook_data = <<>>
    THEN [r EXCEPT !.workbook_data = r.file_sheets]
    ELSE r

\* reader.load_all_sheets()
LoadAllSheets ==
    /\ reader' = [reader EXCEPT !.workbook_data = reader.file_sheets]
    /\ call' = [op |-> "load_all_sheets", sheet_name |-> None, normalize |-> FALSE,
                loaded |-> reader.workbook_data # <<>>,
                raised |-> "", df |-> None]
    /\ UNCHANGED <<dirs, files, pre, asProject, nameVars>>

\* reader.get_data(sheet_name, normalize_columns)
GetData ==
    \E sheet_name \in {None, SheetA, SheetB, SheetZ}, normalize \in BOOLEAN :
        LET r == get_data(reader.file_sheets, reader.workbook_data, sheet_name, normalize)
        IN  /\ reader' = AfterDefault(reader, sheet_name)
            /\ call' = [op |-> "get_data", sheet_name |-> sheet_name,
                        normalize |-> normalize,
                        loaded |-> reader.workbook_data # <<>>,
                        raised |-> r.raised, df |-> r.df]
            /\ UNCHANGED <<dirs, files, pre, asProject, nameVars>>

\* reader.get_timeline_data(sheet_name)
GetTimelineData ==
    \E sheet_name \in {None, SheetA, SheetB, SheetZ} :
        LET r == get_timeline_data(reader.file_sheets, reader.workbook_data, sheet_name)
        IN  /\ reader' = AfterDefault(reader, sheet_name)
            /\ call' = [op |-> "get_timeline_data", sheet_name |-> sheet_name,
                        normalize |-> TRUE,
                        loaded |-> reader.workbook_data # <<>>,
                        raised |-> r.raised, df |-> r.df]
            /\ UNCHANGED <<dirs, files, pre, asProject, nameVars>>

NextReader == LoadAllSheets \/ GetData \/ GetTimelineData

SpecReader == InitReader /\ [][NextReader]_vars

----------------------------------------------------------------------------
(* Claims about the naming utilities, checked under SpecNames.             *)

Range(s) == {s[i] : i \in 1..Len(s)}

\* the ProjectName grammar as the specification words it
GrammarName(s) ==
    /\ s # <<>>
    /\ Len(s) <= MaxNameLen
    /\ \A i \in 1..Len(s) : s[i] \in AsciiAlnum \cup {"_", "-"}
    /\ s[1] \notin {"-", "_"} /\ s[Len(s)] \notin {"-", "_"}
    /\ Lower(s) \notin Reserved

\* C1: validate_project_name returns (True, "") for every name of the grammar
\* and False with a non-empty reason for every other name.
C1_AcceptsExactlyGrammar ==
    fn = "validate_project_name" =>
        IF GrammarName(text) THEN ret = <<TRUE, "">>
        ELSE ret[1] = FALSE /\ ret[2] # ""

\* C5: sanitize_filename is idempotent: sanitizing what it returned returns it
\* unchanged.
C5_SanitizeIdempotent ==
    fn = "sanitize_filename" => sanitize_filename(ret) = ret

C5_Witness ==
    /\ fn = "sanitize_filename"
    /\ ret # <<>> /\ ret # text
    /\ \E i \in 1..Len(text) : IsSep(text[i])

\* One pass over the lowercased input: a character outside keep is dropped, a
\* run of whitespace and hyphens gives one underscore, and the underscores at
\* both ends are trimmed.
RECURSIVE Scan(_, _, _)
Scan(s, inRun, keep) ==
    IF s = <<>> THEN <<>>
    ELSE LET c == LowerChar(Head(s))
         IN  IF c \notin keep THEN Scan(Tail(s), inRun, keep)
             ELSE IF c \in {" ", "\n", "-"}
                  THEN (IF inRun THEN <<>> ELSE <<"_">>) \o Scan(Tail(s), TRUE, keep)
             ELSE <<c>> \o Scan(Tail(s), FALSE, keep)

Described(s, keep) == Strip(Scan(s, FALSE, keep))

\* [A-Za-z0-9 _-]
AsciiKeep == AsciiAlnum \cup {" ", "_", "-"}

\* word characters of any script, whitespace of any kind, the hyphen
WordSpaceHyphen == {"c", "o", "n", "C", "1", "é", "_", " ", "\n", "-"}

\* C6 as stated: the input lowercased, every character outside [A-Za-z0-9 _-]
\* removed, every run of whitespace and hyphens replaced by one underscore,
\* leading and trailing underscores trimmed.
C6_AsStated ==
    fn = "sanitize_filename" => ret = Described(text, AsciiKeep)

\* C6 as amended: the characters removed are those that are neither a word
\* character (a letter or digit of any script, or the underscore) nor
\* whitespace (of any kind) nor a hyphen.
C6_Amended ==
    fn = "sanitize_filename" => ret = Described(text, WordSpaceHyphen)

C6_Witness ==
    /\ fn = "sanitize_filename"
    /\ "é" \in Range(ret)
    /\ "!" \in Range(text) /\ "\n" \in Range(text)

----------------------------------------------------------------------------
(* Claims about the project scaffolding, checked under SpecProjects.       *)

Created(c) == c.op = "create_project_structure"

TargetPaths(c) == {project_paths(c.name, c.base)[i] : i \in 1..3}

ReadmePath(c) == project_paths(c.name, c.base)[1] \o <<ReadmeMd>>

\* C2 as stated: whenever one of the three directories exists beforehand,
\* create_project_structure fails with the already-exists error and creates
\* nothing.
C2_AsStated ==
    (Created(call) /\ \E p \in TargetPaths(call) : Exists(pre, p)) =>
        /\ call.raised = "ValueError" /\ call.msg = MsgExists
        /\ Fs = pre

\* C2 as amended: for a name that validate_project_name accepts, whenever one
\* of the three directories exists beforehand, create_project_structure fails
\* with the already-exists error and creates nothing; a second call after a
\* successful one is such a call.
C2_Amended ==
    (/\ Created(call)
     /\ validate_project_name(call.name)[1]
     /\ \E p \in TargetPaths(call) : Exists(pre, p)) =>
        /\ call.raised = "ValueError" /\ call.msg = MsgExists
        /\ Fs = pre

\* the second call of a project that the first call made
C2_Witness ==
    /\ Created(call)
    /\ call.msg = MsgExists
    /\ IsFile(pre, ReadmePath(call))
    /\ \E e \in asProject : e.name = call.name

\* C3: every directory a component made under a project name bears a name
\* that validate_project_name accepts.
C3_OnlyValidatedNames ==
    \A e \in asProject : validate_project_name(e.name)[1]

\* C4 as stated: a successful create_project_structure makes exactly the three
\* directories and the README in resources/<name>, and nothing else.
C4_AsStated ==
    (Created(call) /\ call.raised = "") =>
        /\ dirs = pre.dirs \cup TargetPaths(call)
        /\ files = Put(pre.files, ReadmePath(call), Readme(call.name))

\* C4 as amended: a successful create_project_structure makes the three
\* directories, those of their ancestors that did not exist yet (base_dir and
\* its resources, outputs and scripts), and the README in resources/<name>,
\* and nothing else.
C4_Amended ==
    (Created(call) /\ call.raised = "") =>
        /\ dirs = pre.dirs \cup UNION {Prefixes(p) : p \in TargetPaths(call)}
        /\ TargetPaths(call) \cap pre.dirs = {}
        /\ ReadmePath(call) \notin DOMAIN pre.files
        /\ files = Put(pre.files, ReadmePath(call), Readme(call.name))

\* a successful call that had to make ancestors too
C4_Witness ==
    /\ Created(call) /\ call.raised = ""
    /\ Cardinality(dirs \ pre.dirs) > 3

----------------------------------------------------------------------------
(* Claims about the converter, checked under SpecConvert.                  *)

Converted(c) == c.op = "convert_excel_to_csv" /\ c.raised = ""

\* the sheets of the workbook the last call read
SourceSheets(c) == pre.files[c.file].sheets

\* C7: on a workbook with sheets s1..sn, convert_excel_to_csv returns n paths,
\* the i-th being <dest>/<stem>_<sanitize_sheet_name(si)>.csv, where dest is the
\* directory of the workbook when no output directory is given and the given
\* directory otherwise, which exists afterwards.
C7_OnePathPerSheet ==
    Converted(call) =>
        LET dest == IF call.output_dir = None THEN Parent(call.file) ELSE call.output_dir
            stem == Stem(Name(call.file))
        IN  /\ Len(call.ret) = Len(SourceSheets(call))
            /\ \A i \in 1..Len(call.ret) :
                  call.ret[i] =
                      dest \o <<stem \o <<"_">> \o
                                sanitize_sheet_name(SourceSheets(call)[i].name) \o DotCsv>>
            /\ IsDir(Fs, dest)

\* two sheets converted into an output directory that did not exist
C7_Witness ==
    /\ Converted(call)
    /\ call.output_dir = <<Out>> /\ ~IsDir(pre, <<Out>>)
    /\ Len(call.ret) = 2

\* the table read back equals the sheet, but that a text that reads as a number
\* comes back as a number
SameModuloWidening(got, sheet) ==
    /\ got.columns = sheet.columns
    /\ Len(got.rows) = Len(sheet.rows)
    /\ \A i \in 1..Len(sheet.rows) :
          /\ Len(got.rows[i]) = Len(sheet.rows[i])
          /\ \A j \in 1..Len(sheet.rows[i]) :
                /\ got.rows[i][j].v = sheet.rows[i][j].v
                /\ got.rows[i][j].t # sheet.rows[i][j].t =>
                      sheet.rows[i][j].t = "str" /\ got.rows[i][j].t = "num"

\* C8: after a successful convert_excel_to_csv there is one file per sheet, and
\* the file written for a sheet reads back as that sheet (modulo widening), for
\* any distinct sheet names.
C8_RoundTrip ==
    Converted(call) =>
        /\ Cardinality({call.ret[i] : i \in 1..Len(call.ret)}) = Len(SourceSheets(call))
        /\ \A i \in 1..Len(call.ret) :
              /\ IsFile(Fs, call.ret[i])
              /\ SameModuloWidening(read_csv(files[call.ret[i]]), SourceSheets(call)[i])

ConvertedDir(c) == c.op = "convert_directory" /\ c.raised = ""

\* C9: convert_directory on a directory returns normally with one entry for
\* every discovered file, in the order of processing; a file whose conversion
\* fails (in this model: a file that is no workbook) has the empty list, and
\* every other file has the files written for its sheets.
C9_FailureIsolated ==
    (call.op = "convert_directory" /\ IsDir(pre, call.directory)) =>
        /\ call.raised = ""
        /\ Len(call.ret) = Cardinality(excel_files(pre, call.directory))
        /\ {call.ret[i].file : i \in 1..Len(call.ret)} = excel_files(pre, call.directory)
        /\ \A i \in 1..Len(call.ret) :
              IF IsWorkbook(pre, call.ret[i].file)
              THEN /\ Len(call.ret[i].csv) = Len(pre.files[call.ret[i].file].sheets)
                   /\ \A k \in 1..Len(call.ret[i].csv) : IsFile(Fs, call.ret[i].csv[k])
              ELSE call.ret[i].csv = <<>>

\* a failed conversion followed by a successful one
C9_Witness ==
    /\ ConvertedDir(call)
    /\ \E i, j \in 1..Len(call.ret) :
          i < j /\ call.ret[i].csv = <<>> /\ call.ret[j].csv # <<>>

\* C10: convert_directory processes, in sorted order, exactly the files directly
\* in the directory whose extension is .xlsx, .xls, .xlsm or .xlsb in any
\* letter case.
C10_DiscoversAnyCase ==
    ConvertedDir(call) =>
        [i \in 1..Len(call.ret) |-> call.ret[i].file] =
            Sorted({p \in DOMAIN pre.files :
                      /\ Parent(p) = call.directory
                      /\ Lower(Suffix(Name(p))) \in ExcelSuffixes})

Called(c) == c.op = "convert_excel_to_csv"

RecognizedSuffix(p) == Lower(Suffix(Name(p))) \in ExcelSuffixes

\* the output directory is not given, or it can be made
CanMake(fs, output_dir) == output_dir = None \/ MkdirParents(fs, output_dir).ok

\* C11 (as stated): convert_excel_to_csv raises FileNotFoundError when the
\* source does not exist, whatever its extension, and ValueError when the
\* source exists and its extension is not recognized or the workbook cannot be
\* read; in none of these cases does it return a list.
C11_AsStated ==
    Called(call) =>
        /\ ~Exists(pre, call.file) =>
              call.raised = "FileNotFoundError" /\ call.ret = <<>>
        /\ (Exists(pre, call.file) /\
                (~RecognizedSuffix(call.file) \/ ~IsWorkbook(pre, call.file))) =>
              call.raised = "ValueError" /\ call.ret = <<>>

\* C11 (amended): as stated, but the unreadable workbook raises ValueError
\* only when the output directory is not given or can be made; when it cannot
\* be made, the call raises the error of the mkdir, before the workbook is read.
C11_Amended ==
    Called(call) =>
        /\ ~Exists(pre, call.file) =>
              call.raised = "FileNotFoundError" /\ call.ret = <<>>
        /\ (Exists(pre, call.file) /\ ~RecognizedSuffix(call.file)) =>
              call.raised = "ValueError" /\ call.ret = <<>>
        /\ (Exists(pre, call.file) /\ RecognizedSuffix(call.file) /\
                CanMake(pre, call.output_dir) /\ ~IsWorkbook(pre, call.file)) =>
              call.raised = "ValueError" /\ call.ret = <<>>
        /\ (Exists(pre, call.file) /\ RecognizedSuffix(call.file) /\
                ~CanMake(pre, call.output_dir)) =>
              call.raised = "OSError" /\ call.ret = <<>>

\* an existing file with a recognized extension that is no workbook was refused
C11_Witness ==
    /\ Called(call)
    /\ Exists(pre, call.file) /\ RecognizedSuffix(call.file)
    /\ ~IsWorkbook(pre, call.file)
    /\ call.raised = "ValueError"

----------------------------------------------------------------------------
(* Claims about the reader, checked under SpecReader.                      *)

\* the last call named a sheet of the file, or none
Answerable(c) == c.sheet_name = None \/ HasSheet(reader.file_sheets, c.sheet_name)

\* the sheet the last call asked for
Target(c) ==
    IF c.sheet_name = None THEN reader.file_sheets[1]
    ELSE SheetOf(reader.file_sheets, c.sheet_name)

Distinct(cols) == \A i, j \in 1..Len(cols) : i # j => cols[i] # cols[j]

\* C12: get_data with no sheet name returns the first sheet of the workbook,
\* which it loads if need be, and with a sheet name returns that sheet, whether
\* or not the workbook was loaded; with normalize set the headers of what it
\* returns are trimmed and lowercased.
C12_ReturnsTheSheet ==
    (call.op = "get_data" /\ Answerable(call)) =>
        /\ call.raised = ""
        /\ call.df = IF call.normalize THEN NormalizeColumns(Target(call)) ELSE Target(call)
        /\ call.sheet_name = None => reader.workbook_data = reader.file_sheets

\* C13: get_timeline_data on a sheet of two columns or more returns the table
\* with the first column named speak_time, the second speak_person and every
\* other column under its normalized name; on a sheet of fewer columns it
\* returns the table with no renaming; it does not raise.
C13_TimelineRoles ==
    (call.op = "get_timeline_data" /\ Answerable(call)) =>
        LET norm == NormalizeColumns(Target(call)).columns
        IN  /\ call.raised = ""
            /\ call.df.rows = Target(call).rows
            /\ IF Len(norm) >= 2
               THEN /\ Len(call.df.columns) = Len(norm)
                    /\ call.df.columns[1] = speak_time
                    /\ call.df.columns[2] = speak_person
                    /\ \A i \in 3..Len(norm) : call.df.columns[i] = norm[i]
               ELSE call.df.columns = norm

\* C14: a table the reader returns after normalization (get_data with normalize
\* set, get_timeline_data), from a sheet whose headers are pairwise distinct,
\* has pairwise distinct column names.
C14_DistinctColumns ==
    (/\ call.op \in {"get_data", "get_timeline_data"}
     /\ call.normalize
     /\ call.raised = ""
     /\ Distinct(Target(call).columns)) =>
        Distinct(call.df.columns)

----------------------------------------------------------------------------
(* Claims about the preconditions of the library, checked under            *)
(* SpecLibrary.                                                            *)

\* the last call was made with a precondition of its operation violated
PreconditionViolated(c) ==
    CASE c.op = "GraphVisualizer" ->
            speak_time \notin Columns(c.df) \/ speak_person \notin Columns(c.df)
      [] c.op = "correlation_analysis" ->
            \/ (IF c.columns # None THEN Len(c.columns)
                ELSE Cardinality(NumericColumns(c.df))) < 2
            \/ c.method \notin {pearson, spearman}
      [] c.op = "anova" -> Cardinality(Groups(c.df, c.group_column)) < 2
      [] c.op = "normality_test" -> Len(c.df.rows) < 3
      [] c.op = "convert_excel_to_csv" ->
            ~Exists(pre, c.file) \/ ~RecognizedSuffix(c.file)
      [] OTHER -> FALSE

\* C15: a library operation called with a violated precondition raises, returns
\* nothing, and leaves the files and directories as they were before the call.
C15_NoPartialResults ==
    PreconditionViolated(call) =>
        /\ call.raised # ""
        /\ call.ret = <<>>
        /\ Fs = pre

----------------------------------------------------------------------------
(* Claims about the lookups, checked under SpecLookup.                     *)

\* the names of the folders directly in directory that do not start with a dot
VisibleFolders(fs, directory) ==
    { d[Len(d)] : d \in { e \in fs.dirs :
                            /\ e # <<>> /\ Parent(e) = directory
                            /\ e[Len(e)][1] # "." } }

\* the last call returned the visible folders of resources_dir in sorted order
ListsVisibleFolders(c, resources_dir) ==
    /\ c.raised = ""
    /\ {c.ret[i] : i \in 1..Len(c.ret)} = VisibleFolders(pre, resources_dir)
    /\ \A i, j \in 1..Len(c.ret) : i < j => StrLess(c.ret[i], c.ret[j])
    /\ ~Exists(pre, resources_dir) => c.ret = <<>>

\* C18 (as stated): list_projects(base_dir) returns, in sorted order, exactly
\* the names of the folders directly in <base_dir>/resources whose name does
\* not start with a dot, no regular file among them, and the empty list when
\* <base_dir>/resources does not exist.
C18_AsStated ==
    call.op = "list_projects" =>
        ListsVisibleFolders(call, call.base_dir \o <<resources>>)

\* C18 (amended): as stated when <base_dir>/resources is a directory or does
\* not exist; when it is a regular file, list_projects raises
\* NotADirectoryError.
C18_Amended ==
    call.op = "list_projects" =>
        IF IsFile(pre, call.base_dir \o <<resources>>)
        THEN call.raised = "NotADirectoryError"
        ELSE ListsVisibleFolders(call, call.base_dir \o <<resources>>)

\* two projects listed from a resources that also holds a hidden folder and a
\* regular file
C18_Witness ==
    /\ call.op = "list_projects" /\ call.base_dir = <<>>
    /\ Len(call.ret) = 2
    /\ IsDir(pre, <<resources, NmHidden>>)
    /\ IsFile(pre, <<resources, DataXlsx>>)

Detected(c) == c.op = "detect_project_from_path"

\* C19: detect_project_from_path(p) returns the segment after the first
\* "resources" segment of p when that segment names a directory at that place
\* in p, and None in every other case; a later "resources" is not looked at.
C19_DetectsInPlace ==
    Detected(call) =>
        LET p == call.file_path
            idx == ResourcesIdx(p)
        IN  call.ret = IF idx > 0 /\ Len(p) > idx /\ IsDir(pre, SubSeq(p, 1, idx + 1))
                       THEN p[idx + 1]
                       ELSE None

\* C20: for a path to a file whose own name comes directly after the first
\* "resources" segment, detect_project_from_path returns None.
C20_NoProjectSegment ==
    (/\ Detected(call)
     /\ ResourcesIdx(call.file_path) > 0
     /\ Len(call.file_path) = ResourcesIdx(call.file_path) + 1
     /\ IsFile(pre, call.file_path)) =>
        call.ret = None

----------------------------------------------------------------------------
(* Claims about the handlers, checked under SpecCommands.                  *)

Handlers == {"cmd_init", "cmd_convert", "cmd_list", "cmd_analyze", "cmd_visualize"}

\* C16: every handler returns 0 or 1, and 1 when an error was reported; nothing
\* a lower layer raises leaves a handler.
C16_ExitCodes ==
    call.op \in Handlers =>
        /\ call.escaped = ""
        /\ call.exit \in {0, 1}
        /\ call.reported => call.exit = 1

\* where the charts of the last visualize go
ChartDir(c) == IF c.project # None THEN <<outputs, c.project>> ELSE c.output

\* C17: visualize on an existing workbook whose first sheet has a time column
\* followed by a person column writes the selected charts (all four with --all
\* or with no flag, else the flagged ones) in the format asked for, and
\* returns 0.
C17_GeneratesSelectedCharts ==
    (/\ call.op = "cmd_visualize"
     /\ IsWorkbook(pre, call.file)
     /\ call.sheet = None
     /\ pre.files[call.file].sheets[1].columns = <<speak_time, speak_person>>) =>
        /\ call.exit = 0
        /\ \A k \in 1..Len(ChartKinds) :
              Selected(call.flags, call.all)[k] <=>
                  IsFile(Fs, ChartDir(call) \o <<ChartKinds[k] \o <<".">> \o call.format>>)

----------------------------------------------------------------------------
(* Claims about a creation that fails part-way, checked under SpecProjects. *)

\* a regular file stands where p or a directory above p should be
Blocked(fs, p) == \E q \in Prefixes(p) : IsFile(fs, q)

\* the last call passed the checks of create_project_structure and met a
\* directory it could not make
PartWay(c) ==
    /\ c.op = "create_project_structure"
    /\ validate_project_name(c.name)[1]
    /\ \A i \in 1..3 : ~Exists(pre, project_paths(c.name, c.base)[i])
    /\ \E i \in 1..3 : Blocked(pre, project_paths(c.name, c.base)[i])

\* C21: when create_project_structure fails part-way, the error reaches the
\* caller and every directory made before the failure stays: nothing is
\* rolled back.
C21_NoRollback ==
    PartWay(call) =>
        LET paths == project_paths(call.name, call.base)
        IN  /\ call.raised = "OSError"
            /\ pre.dirs \subseteq dirs
            /\ files = pre.files
            /\ \A i \in 1..3 :
                  (\A j \in 1..i : ~Blocked(pre, paths[j])) => IsDir(Fs, paths[i])

\* resources/<name> was made, then outputs/<name> could not be
C21_Witness ==
    /\ PartWay(call)
    /\ call.raised = "OSError"
    /\ IsDir(Fs, project_paths(call.name, call.base)[1])
    /\ ~IsDir(pre, project_paths(call.name, call.base)[1])
    /\ ~IsDir(Fs, project_paths(call.name, call.base)[2])

----------------------------------------------------------------------------
(* Further claims about the naming utilities, checked under SpecNames.     *)

\* C26: get_output_dir_for_project returns <base_dir>/<name> when there is a
\* name and base_dir unchanged when there is none (None or the empty string),
\* base_dir being "outputs" when it is left out.
C26_OutputDirForProject ==
    fn = "get_output_dir_for_project" =>
        /\ ~ret.given => ret.base_dir = <<outputs>>
        /\ text # None =>
              /\ Len(ret.dir) = Len(ret.base_dir) + 1
              /\ SubSeq(ret.dir, 1, Len(ret.base_dir)) = ret.base_dir
              /\ ret.dir[Len(ret.dir)] = text
        /\ text = None => ret.dir = ret.base_dir

\* a name under the default base directory
C26_Witness ==
    /\ fn = "get_output_dir_for_project"
    /\ text = <<"c", "-", "o">>
    /\ ~ret.given
    /\ ret.dir = <<outputs, text>>

\* the rules of validate_project_name, each on its own
RuleEmpty(name) == name = <<>>
RuleLength(name) == Len(name) > MaxNameLen
RuleCharacters(name) == \E i \in 1..Len(name) : ~NameChar(name[i])
RuleEdges(name) ==
    name # <<>> /\ (name[1] \in {"-", "_"} \/ name[Len(name)] \in {"-", "_"})
RuleReserved(name) == Lower(name) \in Reserved

FirstViolated(name) ==
    IF RuleEmpty(name) THEN MsgEmpty
    ELSE IF RuleLength(name) THEN MsgTooLong
    ELSE IF RuleCharacters(name) THEN MsgChars
    ELSE IF RuleEdges(name) THEN MsgEdge
    ELSE IF RuleReserved(name) THEN MsgReserved
    ELSE ""

\* C27: validate_project_name returns the message of the first violated rule
\* in the order empty, too long, disallowed character, hyphen or underscore
\* at an end, reserved word; the reason is "" exactly when the name is
\* accepted.
C27_FirstViolatedRule ==
    fn = "validate_project_name" =>
        /\ ret[2] = FirstViolated(text)
        /\ ret[1] <=> ret[2] = ""

\* C29: for every sheet name sanitize_sheet_name returns a non-empty token of
\* alphanumerics, "-" and "_" that has no two underscores in a row and no
\* underscore at either end; the token is "sheet" whenever nothing else is
\* left of the name.
C29_SheetToken ==
    fn = "sanitize_sheet_name" =>
        /\ ret # <<>>
        /\ \A i \in 1..Len(ret) :
              \/ IsAlnum(ret[i]) \/ ret[i] \in {"-", "_"}
              \* the letters of "sheet", which are not among the characters tried
              \/ \E j \in 1..Len(SheetToken) : ret[i] = SheetToken[j]
        /\ \A i \in 1..(Len(ret) - 1) : ~(ret[i] = "_" /\ ret[i + 1] = "_")
        /\ ret[1] # "_" /\ ret[Len(ret)] # "_"
        /\ (\A i \in 1..Len(text) : ~IsAlnum(text[i]) /\ text[i] # "-")
              => ret = SheetToken

\* a name of blanks, underscores and punctuation only
C29_Witness ==
    /\ fn = "sanitize_sheet_name"
    /\ text = <<" ", "_", "!", " ">>
    /\ ret = SheetToken

----------------------------------------------------------------------------
(* A created project stays listed, checked under SpecProjects.             *)

\* the last call was create_project_structure(name, base) and it returned
Succeeded(name, base) ==
    /\ call.op = "create_project_structure"
    /\ call.name = name /\ call.base = base
    /\ call.raised = ""

\* list_projects(base) returns a list that has name in it
Listed(name, base) ==
    LET r == list_projects(Fs, base)
    IN  r.raised = "" /\ \E i \in 1..Len(r.ret) : r.ret[i] = name

----------------------------------------------------------------------------
(* The charts of one GraphVisualizer on the directory out, and the         *)
(* organizer of output files, called in any order.                         *)

MaxDepth == 4
MaxFiles == 2

Formats == {png, pdf, html}

\* output_name: None, or a name
NoName == [given |-> FALSE]
Named(s) == [given |-> TRUE, name |-> s]

\* a variant that always takes the default name
render_chart_default_name(fs, output_dir, kind, output_name, format) ==
    LET output_path == output_dir \o <<ChartKinds[kind] \o <<".">> \o format>>
        w == WriteFile(fs, output_path, Chart(ChartKinds[kind], format))
    IN  IF ~w.ok THEN [fs |-> fs, raised |-> "OSError", ret |-> <<>>]
        ELSE [fs |-> w.fs, raised |-> "", ret |-> output_path]

\* visualizer.py, the end that timeline_chart, bar_chart_speaking_time,
\* distribution_plot and heatmap_person_time have in common, in the plotly
\* branch as in the matplotlib one: the default name when output_name is
\* None, the figure saved at output_dir / f"{output_name}.{format}", the path
\* returned.  kind is the place of the operation in ChartKinds.
render_chart(fs, output_dir, kind, output_name, format) ==
    LET name == IF output_name.given THEN output_name.name ELSE ChartKinds[kind]
        output_path == output_dir \o <<name \o <<".">> \o format>>
        w == WriteFile(fs, output_path, Chart(ChartKinds[kind], format))
    IN  IF ~w.ok THEN [fs |-> fs, raised |-> "OSError", ret |-> <<>>]
        ELSE [fs |-> w.fs, raised |-> "", ret |-> output_path]

\* str.lstrip(".")
RECURSIVE LStripDots(_)
LStripDots(s) == IF s # <<>> /\ Head(s) = "." THEN LStripDots(Tail(s)) ELSE s

\* Path.rename on a regular file: the target is replaced when it is a regular
\* file; a directory there, or no directory to hold it, raises
Rename(fs, src, dst) ==
    IF ~IsFile(fs, src) \/ IsDir(fs, dst) \/ ~IsDir(fs, Parent(dst))
    THEN [ok |-> FALSE, fs |-> fs]
    ELSE [ok |-> TRUE,
          fs |-> [fs EXCEPT !.files =
                    [q \in (DOMAIN @ \ {src}) \cup {dst} |->
                        IF q = dst THEN fs.files[src] ELSE fs.files[q]]]]

\* utils.py, organize_output_file, on a path that is a regular file or is
\* missing.  path.parent != subdir compares the directory of the file with
\* that directory extended by the extension.
organize_output_file(fs, file_path, organize_by_type) ==
    LET ext == LStripDots(Suffix(Name(file_path)))
        subdir == Parent(file_path) \o <<ext>>
        made == Mkdir(fs, subdir)
        new_path == subdir \o <<Name(file_path)>>
        moved == Rename(made.fs, file_path, new_path)
    IN  IF ~organize_by_type \/ ~Exists(fs, file_path)
        THEN [fs |-> fs, raised |-> "", ret |-> file_path]
        ELSE IF ext \notin Formats
        THEN [fs |-> fs, raised |-> "", ret |-> file_path]
        ELSE IF ~made.ok
        THEN [fs |-> fs, raised |-> "FileExistsError", ret |-> <<>>]
        ELSE IF Parent(file_path) = subdir
        THEN [fs |-> made.fs, raised |-> "", ret |-> file_path]
        ELSE IF ~moved.ok
        THEN [fs |-> made.fs, raised |-> "OSError", ret |-> <<>>]
        ELSE [fs |-> moved.fs, raised |-> "", ret |-> new_path]

APng == <<"a", ".", "p", "n", "g">>

\* out holds a file the user put there, or nothing
InitCharts ==
    /\ \E S \in SUBSET { [path |-> <<Out, html>>, content |-> PlainFile],
                         [path |-> <<Out, APng>>, content |-> PlainFile] } :
          /\ dirs = UserTree(S).dirs \cup {<<Out>>}
          /\ files = UserTree(S).files
          /\ pre = [dirs |-> UserTree(S).dirs \cup {<<Out>>}, files |-> UserTree(S).files]
    /\ call = NoCall
    /\ asProject = {}
    /\ reader = NoReader
    /\ text = <<>> /\ fn = "none" /\ ret = <<>>

\* GraphVisualizer(data, "out").<kind>(output_name=..., format=...), while
\* there are fewer than MaxFiles files
RenderChart ==
    \E kind \in 1..Len(ChartKinds), format \in Formats,
       output_name \in {NoName, Named(<<"c">>)} :
        LET v == GraphVisualizer(Fs, Roles, <<Out>>)
            r == render_chart(v.fs, <<Out>>, kind, output_name, format)
        IN  /\ v.raised = ""
            /\ Cardinality(DOMAIN files) < MaxFiles
            /\ dirs' = r.fs.dirs
            /\ files' = r.fs.files
            /\ pre' = v.fs
            /\ call' = [op |-> "chart", kind |-> kind, output_name |-> output_name,
                        format |-> format, raised |-> r.raised, ret |-> r.ret]
            /\ UNCHANGED <<asProject, reader, nameVars>>

\* organize_output_file(file_path, organize_by_type) on a file there is, or
\* on one there is not, at most MaxDepth segments deep
OrganizeOutputFile ==
    \E file_path \in DOMAIN files \cup {<<Out, APng>>}, organize_by_type \in BOOLEAN :
        LET r == organize_output_file(Fs, file_path, organize_by_type)
        IN  /\ Len(file_path) <= MaxDepth
            /\ dirs' = r.fs.dirs
            /\ files' = r.fs.files
            /\ pre' = Fs
            /\ call' = [op |-> "organize_output_file", file_path |-> file_path,
                        organize_by_type |-> organize_by_type,
                        raised |-> r.raised, ret |-> r.ret]
            /\ UNCHANGED <<asProject, reader, nameVars>>

NextCharts == RenderChart \/ OrganizeOutputFile

SpecCharts == InitCharts /\ [][NextCharts]_vars

----------------------------------------------------------------------------
(* Claims about the charts and the organizer, checked under SpecCharts.    *)

\* <output_dir>/<output_name, or the default name of the kind>.<format>
ArtifactPath(c) ==
    <<Out>> \o << (IF c.output_name.given THEN c.output_name.name
                   ELSE ChartKinds[c.kind]) \o <<".">> \o c.format >>

Organizable(c) ==
    /\ c.op = "organize_output_file"
    /\ c.organize_by_type
    /\ IsFile(pre, c.file_path)
    /\ LStripDots(Suffix(Name(c.file_path))) \in Formats

\* the file sits in the directory named after its extension
InOwnSubdir(file_path) ==
    Len(file_path) >= 2
    /\ Name(Parent(file_path)) = LStripDots(Suffix(Name(file_path)))

\* C28: organize_output_file moves a png, pdf or html file only when it is
\* not already in the subdirectory named after its extension; called on a
\* file that is there already it leaves the file in place, makes no
\* directory and returns the same path.
C28_MovesOnlyOnce ==
    (Organizable(call) /\ InOwnSubdir(call.file_path)) =>
        /\ call.raised = ""
        /\ call.ret = call.file_path
        /\ dirs = pre.dirs
        /\ files = pre.files

----------------------------------------------------------------------------
(* Claims about the results of the analyzer, checked under SpecLibrary.    *)

\* the last call returned a result
Returned(op) == call.op = op /\ call.raised = ""

\* C22: anova with posthoc on n >= 2 distinct groups whose omnibus p-value is
\* below 0.05 returns a pairwise map of exactly n(n-1)/2 entries, one for
\* each unordered pair of groups, each flagged significant exactly when its
\* p-value is below 0.05 divided by n(n-1)/2.
C22_PosthocPairs ==
    (Returned("anova") /\ call.posthoc /\ Below(call.ret[1].p_value, 50, 1)) =>
        LET groups == Groups(call.df, call.group_column)
            n == Cardinality(groups)
            pairwise == call.ret[1].posthoc_pairwise
        IN  /\ n >= 2
            /\ Cardinality(DOMAIN pairwise) = (n * (n - 1)) \div 2
            /\ \A g1 \in groups : \A g2 \in groups \ {g1} :
                  PairKey(g1, g2) \in DOMAIN pairwise \/ PairKey(g2, g1) \in DOMAIN pairwise
            /\ \A k \in DOMAIN pairwise :
                  pairwise[k].significant_bonferroni
                      <=> Below(pairwise[k].p_value, 50, (n * (n - 1)) \div 2)

\* the operations whose result has a p-value and the flag significant_at_0.05
Flagged == {"t_test", "anova", "chi_square_test"}

\* the result has the field
Has(result, field) == field \in DOMAIN result

\* C23 as stated: the result of each of correlation_analysis, t_test, anova,
\* chi_square_test and normality_test has the boolean field "significant at
\* 0.05", true exactly when the p-value is below 0.05.
C23_AsStated ==
    (call.op \in Flagged \cup {"correlation_analysis", "normality_test"} /\ call.raised = "") =>
        /\ Has(call.ret[1], "significant_at_0_05")
        /\ call.ret[1].significant_at_0_05 <=> Below(call.ret[1].p_value, 50, 1)

\* C23, amended: the results of t_test, anova and chi_square_test have the
\* field significant_at_0.05, true exactly when their p-value is below 0.05;
\* the result of normality_test has instead normally_distributed_at_0.05,
\* true exactly when its p-value is at least 0.05; the result of
\* correlation_analysis has the matrix of p-values and no flag.
C23_Amended ==
    /\ (call.op \in Flagged /\ call.raised = "") =>
          /\ Has(call.ret[1], "p_value")
          /\ Has(call.ret[1], "significant_at_0_05")
          /\ call.ret[1].significant_at_0_05 <=> Below(call.ret[1].p_value, 50, 1)
    /\ Returned("normality_test") =>
          /\ Has(call.ret[1], "p_value")
          /\ ~Has(call.ret[1], "significant_at_0_05")
          /\ call.ret[1].normally_distributed_at_0_05 <=> AtLeast(call.ret[1].p_value, 50)
    /\ Returned("correlation_analysis") =>
          /\ Has(call.ret[1], "p_values")
          /\ ~Has(call.ret[1], "significant_at_0_05")

\* a t-test whose p-value is exactly 0.05, not flagged
C23_Witness ==
    /\ Returned("t_test")
    /\ call.ret[1].p_value = P(50)
    /\ ~call.ret[1].significant_at_0_05

\* the rows of the table that have a value in both columns
JointRows(df, c1, c2) ==
    {i \in 1..Len(df.rows) : df.rows[i][c1].t = "num" /\ df.rows[i][c2].t = "num"}

\* the values of column c in the rows of J, from the top
Over(df, J, c) ==
    [k \in 1..Cardinality(J) |->
        df.rows[CHOOSE i \in J : Cardinality({m \in J : m < i}) = k - 1][c].v]

\* C24: in the result of correlation_analysis, for two distinct selected
\* columns the p-value is nan when at most 2 rows have both values and is the
\* p-value computed over exactly those rows otherwise; every diagonal entry
\* is 0; the coefficient is reported for every pair, also where the p-value
\* is nan.
C24_PairwisePValues ==
    Returned("correlation_analysis") =>
        LET df == call.df
            cols == SubsetColumns(df, call.columns)
            res == call.ret[1]
        IN  \A i \in 1..Len(cols) : \A j \in 1..Len(cols) :
                LET J == JointRows(df, cols[i], cols[j])
                IN  /\ i = j => res.p_values[i][j] = P(0)
                    /\ (i # j /\ Cardinality(J) <= 2) => res.p_values[i][j] = NaN
                    /\ (i # j /\ Cardinality(J) > 2) =>
                          res.p_values[i][j] =
                              PValue(call.method, Over(df, J, cols[i]), Over(df, J, cols[j]))
                    /\ res.correlation_matrix[i][j] =
                          Coefficient(call.method, Over(df, J, cols[i]), Over(df, J, cols[j]))

\* x and z have two rows in common, x and y three
C24_Witness ==
    /\ Returned("correlation_analysis")
    /\ call.df = Gappy /\ call.columns = None
    /\ call.ret[1].p_values[1][3] = NaN
    /\ call.ret[1].p_values[1][2] # NaN
    /\ call.ret[1].correlation_matrix[1][3].x = <<"1", "2">>

====
